---- MODULE Spec2Model ----
(***************************************************************************)
(* Model of the sol-wallet-monitor polling pipeline (src/src/monitor.ts):  *)
(* balance change detection, the signature retry loop, transaction         *)
(* classification and the bounded task fan-out of startPolling.            *)
(*                                                                         *)
(* Amounts of native value are kept in fixed point: one unit is            *)
(* 0.000000001 SOL (one lamport).  A number the code writes in SOL is the  *)
(* same number of units times 10^9 here, so 0.05 SOL is 50000000 units.    *)
(* Division of an integer lamport difference by 1e9 and the comparison     *)
(* with a decimal literal are monotone in IEEE doubles for the magnitudes  *)
(* used, so the comparisons below decide exactly as the code does.         *)
(***************************************************************************)
EXTENDS Integers, Sequences, FiniteSets, TLC

\* ------------------------------------------------------------------------
\* State
\* ------------------------------------------------------------------------
\* one run of fetchLastTransactionDetails and of the dispatch that follows
VARIABLES rev, tpc, signatures, attempts, calls, rateLimited, succeeded, sig,
          fetched, tTx, details, sent, lookups

taskVars == <<rev, tpc, signatures, attempts, calls, rateLimited, succeeded, sig,
              fetched, tTx, details, sent, lookups>>

\* the classification of one transaction
VARIABLES cTx, cDetails, cDone, cAgain

classVars == <<cTx, cDetails, cDone, cAgain>>

\* startPolling; lastSeen, olds, prevQ, lastQ and qChunk record what the
\* queries returned and read
VARIABLES GLOBAL_WALLETS, balanceCache, dynamicInterval, pc, currentWallets,
          chunkIdx, updates, batchIdx, task, cycle, lastSeen, olds, prevQ,
          lastQ, qChunk

pollVars == <<GLOBAL_WALLETS, balanceCache, dynamicInterval, pc, currentWallets,
              chunkIdx, updates, batchIdx, task, cycle, lastSeen, olds, prevQ,
              lastQ, qChunk>>

\* one call of fetchTokenMarketData past its cache check
VARIABLES rJup, rDex, rSettled, rResult

resolveVars == <<rJup, rDex, rSettled, rResult>>

\* the two TTL caches, the clock and one call of each lookup function
VARIABLES now, ticks, tokenCache, rugCache, tokCall, rugCall

cacheVars == <<now, ticks, tokenCache, rugCache, tokCall, rugCall>>

\* one call of formatPrice
VARIABLES fmt

\* startPolling with its ChangeRecords counted rather than named: the lists,
\* the position in the cycle, dynamicInterval and the tasks under way
VARIABLES ctl

viewVars == <<fmt, ctl>>

metaVars == <<resolveVars, cacheVars, viewVars>>

vars == <<classVars, taskVars, pollVars, metaVars>>

\* ------------------------------------------------------------------------
\* Bounds of the model (not program constants)
\* ------------------------------------------------------------------------
CohortSize == 5       \* watched accounts funded together, besides account 1
MaxBal == 2           \* largest lamport balance the ledger reports
MaxCycles == 2        \* polling cycles explored
MaxPriceExp == 22     \* largest power of ten of a price
MaxItems == 2         \* entries of a wallets.json file
MaxListed == 101      \* accounts in the longest configured list
MaxTargetBals == 3    \* entries of preTokenBalances where the target is chosen
MaxTicks == 2          \* advances of the clock explored
MaxUpdates == 6       \* most ChangeRecords one batch query yields
MaxTokBals == 1       \* entries of pre/postTokenBalances in a transaction

\* ------------------------------------------------------------------------
\* Program constants
\* ------------------------------------------------------------------------
MIN_SOL_THRESHOLD == 0
MAX_CONCURRENT_TASKS == 5
CHUNK_SIZE == 50
MAX_ATTEMPTS == 15
NOISE_THRESHOLD == 1            \* 0.000000001 SOL
SWAP_SOL_MOVE == 50000000       \* 0.05 SOL
WRAP_LEG_MIN == 1000000         \* 0.001 SOL
WRAP_NET_MAX == 10000000        \* 0.01 SOL
NOTIFY_MIN == 1000000           \* 0.001 SOL
INITIAL_INTERVAL == 1000
INTERVAL_FLOOR == 1000
INTERVAL_CEILING == 10000
INTERVAL_RELAX == 100
INTERVAL_BACKOFF == 1000

WSOL_MINT == "So11111111111111111111111111111111111111112"

Abs(x) == IF x < 0 THEN -x ELSE x
Min(a, b) == IF a < b THEN a ELSE b

\* ------------------------------------------------------------------------
\* Transaction classification (fetchLastTransactionDetails, second half)
\* ------------------------------------------------------------------------
Me == "wallet"
Other == "other"
MintA == "mintA"
MintB == "mintB"

\* A log line is modelled by its text; includes() is the substring relation
\* on the lines that occur.
LogJup == "Program JUP6LkbZbjS1jKKwapdHNy74zcZ3tLUZoi5QNyVTaV4 invoke [1]"
LogRaydium == "Program 675kPX9MHTjS2zt1qfr1NYHuzeLXfQM9H24wFSUt1Mp8 invoke [1]"
LogSwapIx == "Program log: Instruction: Swap"
LogSystem == "Program 11111111111111111111111111111111 invoke [1]"
LogTransferIx == "Program log: Instruction: Transfer"

includes(log, pattern) ==
    \/ pattern = "Program JUP" /\ log = LogJup
    \/ pattern = "Program 675kPX9M" /\ log = LogRaydium
    \/ pattern = "Instruction: Swap" /\ log = LogSwapIx

isSwapProgram(logMessages) ==
    \E i \in 1..Len(logMessages) :
        \/ includes(logMessages[i], "Program JUP")
        \/ includes(logMessages[i], "Program 675kPX9M")
        \/ includes(logMessages[i], "Instruction: Swap")

\* preTokenBals.find(b => b.mint === mint && b.owner === pubKey), then
\* ?.uiTokenAmount.uiAmount || 0
RECURSIVE FindAmount(_, _, _, _)
FindAmount(bals, i, mint, owner) ==
    IF i > Len(bals) THEN 0
    ELSE IF bals[i].mint = mint /\ bals[i].owner = owner THEN bals[i].uiAmount
    ELSE FindAmount(bals, i + 1, mint, owner)

\* new Set<string>() filled from pre then post: insertion order, no repeats
RECURSIVE AddMints(_, _, _)
AddMints(acc, bals, i) ==
    IF i > Len(bals) THEN acc
    ELSE AddMints(IF \E k \in 1..Len(acc) : acc[k] = bals[i].mint
                  THEN acc ELSE Append(acc, bals[i].mint), bals, i + 1)

allMints(pre, post) == AddMints(AddMints(<<>>, pre, 1), post, 1)

\* the comparison of line 358 written with >=: the last of equal deltas wins
ReplacesTargetOnTie(diff, targetChange) == Abs(diff) >= Abs(targetChange)

\* Whether a larger delta replaces the current target (line 358)
ReplacesTarget(diff, targetChange) == Abs(diff) > Abs(targetChange)

\* for (const mint of allMints) { ... }  (lines 345-364)
RECURSIVE TokenLoop(_, _, _, _, _, _)
TokenLoop(mints, i, pre, post, owner, acc) ==
    IF i > Len(mints) THEN acc
    ELSE LET mint == mints[i]
             diff == FindAmount(post, 1, mint, owner) - FindAmount(pre, 1, mint, owner)
             nxt == IF Abs(diff) > 0
                    THEN IF mint = WSOL_MINT
                         THEN [acc EXCEPT !.wSolDiff = @ + diff]
                         ELSE IF ReplacesTarget(diff, acc.targetChange)
                              THEN [acc EXCEPT !.targetMint = mint, !.targetChange = diff]
                              ELSE acc
                    ELSE acc
         IN TokenLoop(mints, i + 1, pre, post, owner, nxt)

TokenScan(tx, owner) ==
    TokenLoop(allMints(tx.preTokenBalances, tx.postTokenBalances), 1,
              tx.preTokenBalances, tx.postTokenBalances, owner,
              [targetMint |-> "", targetChange |-> 0, wSolDiff |-> 0])

\* the marker test alone, without the native-amount fallback of lines 372-374
isRealSwapMarkerOnly(swapProgram, nativeDiff) == swapProgram

\* let isRealSwap = isSwapProgram; if (!isRealSwap && |nativeDiff| > 0.05) ...
isRealSwap(swapProgram, nativeDiff) ==
    swapProgram \/ Abs(nativeDiff) > SWAP_SOL_MOVE

\* the SOL leg of a swap written for the wallet alone, without the wrapped leg
totalSolFlowNativeOnly(nativeDiff, wSolDiff) == nativeDiff

\* const totalSolFlow = nativeDiff + wSolDiff
totalSolFlow(nativeDiff, wSolDiff) == nativeDiff + wSolDiff

\* the net movement held to the threshold of the two legs
isWrapOneThreshold(nativeDiff, wSolDiff) ==
    /\ Abs(nativeDiff) > WRAP_LEG_MIN
    /\ Abs(wSolDiff) > WRAP_LEG_MIN
    /\ Abs(nativeDiff + wSolDiff) < WRAP_LEG_MIN

isWrap(nativeDiff, wSolDiff) ==
    /\ Abs(nativeDiff) > WRAP_LEG_MIN
    /\ Abs(wSolDiff) > WRAP_LEG_MIN
    /\ Abs(totalSolFlow(nativeDiff, wSolDiff)) < WRAP_NET_MAX

\* direction read from the SOL that left the wallet (as revision V13 does
\* where it has no token)
SwapIsBuyBySolFlow(targetChange, solFlow) == solFlow < 0

\* isBuy: targetChange > 0 of the SWAP result
SwapIsBuy(targetChange, solFlow) == targetChange > 0

\* direction read from the native leg
WrapIsBuyByNative(nativeDiff, wSolDiff) == nativeDiff > 0

\* isBuy: wSolDiff > 0 of the WRAP result
WrapIsBuy(nativeDiff, wSolDiff) == wSolDiff > 0

NoDetails == [type |-> "NULL"]
NoData == [found |-> FALSE]

\* the kind decided by whether market data was found
SwapTypeByData(tokenData) == IF tokenData = NoData THEN "TRANSFER" ELSE "SWAP"

\* type: 'SWAP' of the SWAP result, whatever the lookups returned
SwapType(tokenData) == "SWAP"

\* The value the function returns for a transaction with metadata that holds
\* the account; tokenData and rugData are the results of the two lookups
\* awaited on the SWAP path.
Classify(signature, tx, owner, tokenData, rugData) ==
    LET nativeDiff == tx.postNative - tx.preNative
        scan == TokenScan(tx, owner)
        flow == totalSolFlow(nativeDiff, scan.wSolDiff)
    IN IF scan.targetMint # ""
       THEN IF isRealSwap(isSwapProgram(tx.logMessages), nativeDiff)
            THEN [signature |-> signature, tokenMint |-> scan.targetMint,
                  tokenData |-> tokenData, rugData |-> rugData,
                  tokenChange |-> scan.targetChange, solChange |-> flow,
                  isBuy |-> SwapIsBuy(scan.targetChange, flow),
                  type |-> SwapType(tokenData)]
            ELSE [signature |-> signature, tokenMint |-> scan.targetMint,
                  tokenData |-> NoData, rugData |-> NoData,
                  tokenChange |-> scan.targetChange, solChange |-> nativeDiff,
                  isBuy |-> FALSE, type |-> "TRANSFER"]
       ELSE IF isWrap(nativeDiff, scan.wSolDiff)
       THEN [signature |-> signature, tokenMint |-> "WSOL",
             tokenData |-> NoData, rugData |-> NoData,
             tokenChange |-> scan.wSolDiff, solChange |-> nativeDiff,
             isBuy |-> WrapIsBuy(nativeDiff, scan.wSolDiff), type |-> "WRAP"]
       ELSE [signature |-> signature, tokenMint |-> "SOL",
             tokenData |-> NoData, rugData |-> NoData,
             tokenChange |-> flow, solChange |-> flow,
             isBuy |-> flow > 0, type |-> "TRANSFER"]

\* getParsedTransaction outcomes: the call throws, returns null, returns a
\* transaction without meta, or a transaction (with or without the account).
TxThrows == [kind |-> "throws"]
TxNull == [kind |-> "null"]
TxNoMeta == [kind |-> "nometa"]

\* Lines 307-435 for a given signature and getParsedTransaction outcome.
ParseTransaction(signature, tx, owner, tokenData, rugData) ==
    IF tx.kind # "tx" THEN NoDetails
    ELSE IF tx.accountIndex = -1 THEN NoDetails
    ELSE Classify(signature, tx, owner, tokenData, rugData)

\* ---- bounded transaction facts -----------------------------------------
TokenEntries ==
    { [mint |-> MintA, owner |-> Me, uiAmount |-> 1],
      [mint |-> MintA, owner |-> Me, uiAmount |-> 3],
      [mint |-> MintB, owner |-> Me, uiAmount |-> 2],
      [mint |-> WSOL_MINT, owner |-> Me, uiAmount |-> 400000000],
      [mint |-> MintA, owner |-> Other, uiAmount |-> 7] }

TokenLists == UNION { [1..n -> TokenEntries] : n \in 0..MaxTokBals }

NativeDeltas == { 0, -400000000, 400000000, 50000000, -50000001, 50000001, 1000 }

LogVariants == { <<>>, <<LogSystem, LogTransferIx>>, <<LogJup>>,
                 <<LogSystem, LogRaydium>>, <<LogSwapIx>> }

BaseLamports == 500000000

MakeTx(idx, d, logs, pre, post) ==
    [kind |-> "tx", accountIndex |-> idx, logMessages |-> logs,
     preNative |-> BaseLamports, postNative |-> BaseLamports + d,
     preTokenBalances |-> pre, postTokenBalances |-> post]

AllTx == { MakeTx(0, d, logs, pre, post) :
             d \in NativeDeltas, logs \in LogVariants,
             pre \in TokenLists, post \in TokenLists }

\* The shapes the specification's scenarios name, and wrap shapes around the
\* two thresholds of line 408.
TokenOf(mint, amount) == [mint |-> mint, owner |-> Me, uiAmount |-> amount]
SwapScenarios ==
    { MakeTx(0, d, <<LogJup>>, pre, post) :
        d \in {-500000000, 500000000},
        pre \in {<<>>, <<TokenOf(MintA, 1000000)>>},
        post \in {<<>>, <<TokenOf(MintA, 1000000)>>} }
WrapScenarios ==
    { MakeTx(0, d, logs, <<TokenOf(WSOL_MINT, pre)>>, <<TokenOf(WSOL_MINT, post)>>) :
        d \in {-410000000, -405000000, -401000000, -400000000, -1000001, -1000000,
               1000000, 1000001, 400000000, 401000000, 405000000, 410000000},
        logs \in {<<>>, <<LogJup>>},
        pre \in {0, 1000000, 1000001, 400000000},
        post \in {0, 400000000} }
ScenarioTx == SwapScenarios \cup WrapScenarios

\* Transactions the resolution tasks of the polling loop are fed with: one per
\* shape the dispatcher distinguishes, plus a transaction without the account.
TaskTx ==
    { TxThrows, TxNull, TxNoMeta,
      MakeTx(-1, 400000000, <<>>, <<>>, <<>>),
      MakeTx(0, 400000000, <<LogSystem, LogTransferIx>>, <<>>, <<>>),
      MakeTx(0, 1000, <<LogSystem, LogTransferIx>>, <<>>, <<>>),
      MakeTx(0, -400000000, <<LogJup>>, <<>>,
             <<[mint |-> MintA, owner |-> Me, uiAmount |-> 3]>>),
      MakeTx(0, 1000, <<LogSystem>>, <<>>,
             <<[mint |-> MintA, owner |-> Me, uiAmount |-> 1]>>),
      MakeTx(0, 400000000, <<LogSystem>>,
             <<[mint |-> WSOL_MINT, owner |-> Me, uiAmount |-> 400000000]>>, <<>>) }

\* ------------------------------------------------------------------------
\* Token metadata (fetchTokenMarketData, fetchRugCheckData) and its display
\* ------------------------------------------------------------------------
CACHE_TTL == 60000
RUG_DANGER_ABOVE == 2000
RUG_WARN_ABOVE == 500
SAFE_BELOW == 500
WARN_BELOW == 1500

\* What the Jupiter request settles to: rejected, a reply that is not ok, a
\* body that does not parse, or a body in which data[mint] is present or
\* not, with or without a price, with or without extraInfo and its symbol.
\* "" stands for a string that is absent or empty (falsy).
JupReply(info, price, extra, symbol) ==
    [status |-> "ok", info |-> info, price |-> price, extra |-> extra,
     symbol |-> symbol]
JupFailed(status) == [status |-> status] @@ JupReply(FALSE, "", FALSE, "")
JupOutcomes ==
    { JupFailed(st) : st \in {"rejected", "notok", "badjson"} }
    \cup { JupReply(FALSE, "", FALSE, "") }
    \cup { JupReply(TRUE, price, FALSE, "") : price \in {"", "0.5"} }
    \cup { JupReply(TRUE, price, TRUE, symbol) :
             price \in {"", "0.5"}, symbol \in {"", "JUP"} }

\* What the DexScreener request settles to; pairs is the list of the body.
Pair(symbol, price, fdv, usd) ==
    [symbol |-> symbol, name |-> "Dex Token", priceUsd |-> price,
     fdv |-> fdv, usd |-> usd]
DexReply(pairs) == [status |-> "ok", pairs |-> pairs]
DexOutcomes ==
    LET PairA == Pair("DEX", "0.4", 1000, 50)
        PairB == Pair("DX2", "0.3", 2000, 70)
        PairBare == Pair("", "", 0, 0)
    IN { [status |-> st, pairs |-> <<>>] :
           st \in {"rejected", "notok", "badjson"} }
       \cup { DexReply(ps) :
                ps \in { <<>>, <<PairA>>, <<PairA, PairB>>, <<PairBare>> } }

\* pairs.sort((a, b) => b.liquidity.usd - a.liquidity.usd)[0]
RECURSIVE BestPair(_, _)
BestPair(pairs, i) ==
    IF i = Len(pairs) THEN pairs[i]
    ELSE LET rest == BestPair(pairs, i + 1)
         IN IF pairs[i].usd >= rest.usd THEN pairs[i] ELSE rest

\* Lines 199-243 on the two settled requests: the record returned, NoData
\* for null.
MarketData(jupRes, dexRes) ==
    LET info == jupRes.status = "ok" /\ jupRes.info
        extra == info /\ jupRes.extra
        price1 == IF info /\ jupRes.price # "" THEN jupRes.price ELSE "0"
        symbol1 == IF extra /\ jupRes.symbol # "" THEN jupRes.symbol
                   ELSE "UNKNOWN"
        name1 == IF extra THEN symbol1 ELSE "Unknown Token"
        hasPair == dexRes.status = "ok" /\ Len(dexRes.pairs) > 0
        bestPair == BestPair(dexRes.pairs, 1)
    IN IF ~hasPair
       THEN IF extra
            THEN [found |-> TRUE, symbol |-> symbol1, name |-> name1,
                  priceUsd |-> price1, fdv |-> 0, liquidity |-> 0]
            ELSE NoData
       ELSE [found |-> TRUE,
             symbol |-> IF symbol1 = "UNKNOWN" THEN bestPair.symbol
                        ELSE symbol1,
             name |-> IF name1 = "Unknown Token" THEN bestPair.name
                      ELSE name1,
             priceUsd |-> IF price1 = "0" THEN bestPair.priceUsd ELSE price1,
             fdv |-> bestPair.fdv,
             liquidity |-> bestPair.usd]

\* What the RugCheck request comes to: it throws, or replies 404, another
\* status that is not ok, or a report with a score.
RugOutcomes ==
    { [status |-> st, score |-> 0] : st \in {"throws", "404", "notok"} }
    \cup { [status |-> "ok", score |-> sc] : sc \in {0, 700, 1500, 2001} }

\* Lines 253-266: the value returned for a reply
RugResult(res) ==
    IF res.status = "404"
    THEN [score |-> 0, riskLevel |-> "unknown", isNew |-> TRUE]
    ELSE IF res.status # "ok"
    THEN [score |-> 0, riskLevel |-> "error", isNew |-> FALSE]
    ELSE [score |-> res.score,
          riskLevel |-> IF res.score > RUG_DANGER_ABOVE THEN "danger"
                        ELSE IF res.score > RUG_WARN_ABOVE THEN "warn"
                        ELSE "good",
          isNew |-> FALSE]

\* Lines 546-556: the tier and score shown on the Risk line; "pending" is
\* the placeholder the line starts from
PendingRisk == [tier |-> "pending", score |-> -1]
RiskText(rugData) ==
    IF rugData = NoData THEN PendingRisk
    ELSE IF rugData.isNew THEN [tier |-> "new", score |-> -1]
    ELSE IF rugData.score < SAFE_BELOW
    THEN [tier |-> "safe", score |-> rugData.score]
    ELSE IF rugData.score < WARN_BELOW
    THEN [tier |-> "warn", score |-> rugData.score]
    ELSE [tier |-> "danger", score |-> rugData.score]

\* The lookup results the classifier is run with on its own: both lookups
\* failed, one failed, none failed.
ClassMeta ==
    { <<MarketData(j, DexReply(<<>>)), RugResult(r)>> :
        j \in { JupFailed("rejected"), JupReply(TRUE, "0.5", TRUE, "JUP") },
        r \in { [status |-> "throws", score |-> 0],
                [status |-> "ok", score |-> 700] } }
NotCalled == [type |-> "NOTCALLED"]

\* Results of fetchTokenMarketData (null or data) and fetchRugCheckData.
TokenResults == { MarketData(j, d) : j \in JupOutcomes, d \in DexOutcomes }
RugResults == { RugResult(res) : res \in RugOutcomes }

\* ------------------------------------------------------------------------
\* Signature retry loop (fetchLastTransactionDetails, first half)
\* ------------------------------------------------------------------------
\* What one getSignaturesForAddress call does: it returns a list, newest
\* first, or throws (with or without "429" in the message).
SigOk == [signature |-> "sigOk", err |-> FALSE]
SigErr == [signature |-> "sigErr", err |-> TRUE]
LookupOutcomes ==
    { [kind |-> "list", sigs |-> <<>>],
      [kind |-> "list", sigs |-> <<SigOk>>],
      [kind |-> "list", sigs |-> <<SigErr>>],
      [kind |-> "throw", is429 |-> TRUE],
      [kind |-> "throw", is429 |-> FALSE] }
OutEmpty == [kind |-> "list", sigs |-> <<>>]
OutOk == [kind |-> "list", sigs |-> <<SigOk>>]
OutErrSig == [kind |-> "list", sigs |-> <<SigErr>>]
Out429 == [kind |-> "throw", is429 |-> TRUE]
OutOther == [kind |-> "throw", is429 |-> FALSE]

\* signatures = await ...: the assignment happens only when the call returns
SigsAfter(sigs, out) ==
    IF out.kind = "list" THEN out.sigs ELSE sigs

\* if (signatures.length > 0 && !signatures[0].err) break;
BreaksLoop(out) ==
    out.kind = "list" /\ Len(out.sigs) > 0 /\ ~out.sigs[1].err

\* attempts++ moved into the try block: a lookup that throws is not counted
AttemptsAfterReturnOnly(n, out) == IF out.kind = "throw" THEN n ELSE n + 1

\* attempts++ at the end of an iteration that did not break
AttemptsAfter(n, out) == n + 1

\* if (signatures.length === 0) return null; const sig = signatures[0].signature
HasSignature(sigs) == ~(Len(sigs) = 0)

\* The whole loop run against a script: the outcome of the i-th lookup.
RECURSIVE RetryLoop(_, _, _)
RetryLoop(script, i, st) ==
    IF ~(st.attempts < MAX_ATTEMPTS) \/ i > Len(script) THEN st
    ELSE LET out == script[i]
             sigs == SigsAfter(st.signatures, out)
         IN IF BreaksLoop(out)
            THEN [st EXCEPT !.signatures = sigs, !.calls = @ + 1]
            ELSE RetryLoop(script, i + 1,
                     [signatures |-> sigs,
                      attempts |-> AttemptsAfter(st.attempts, out),
                      calls |-> st.calls + 1])

RetryStart == [signatures |-> <<>>, attempts |-> 0, calls |-> 0]

\* ------------------------------------------------------------------------
\* One resolve + classify + dispatch task (lines 513-584)
\* ------------------------------------------------------------------------
\* the dispatch block without the if (details) test of line 520
ShouldNotifyUnchecked(d) ==
    IF d.type = "TRANSFER"
    THEN /\ ~(d.tokenMint # "SOL")
         /\ ~(Abs(d.solChange) < MIN_SOL_THRESHOLD)
         /\ Abs(d.solChange) > NOTIFY_MIN
    ELSE d.type # "WRAP"

\* every event is sent
NotifiesAnyEvent(d, minSol) == d.type # "NULL"

\* Lines 520-582 with the minimum of line 33 as minSol: whether a message is
\* handed to sendTgMessage
Notifies(d, minSol) ==
    /\ d.type # "NULL"
    /\ IF d.type = "TRANSFER"
       THEN /\ ~(d.tokenMint # "SOL")
            /\ ~(Abs(d.solChange) < minSol)
            /\ Abs(d.solChange) > NOTIFY_MIN
       ELSE d.type # "WRAP"

\* Whether the task hands a message to sendTgMessage (lines 520-582).
ShouldNotify(d) == Notifies(d, MIN_SOL_THRESHOLD)

\* fetchLastTransactionDetails after the loop, then the dispatch decision.
TaskResult(sigs, tx, tokenData, rugData) ==
    LET d == IF HasSignature(sigs)
             THEN ParseTransaction(sigs[1].signature, tx, Me, tokenData, rugData)
             ELSE NoDetails
    IN [details |-> d, notify |-> ShouldNotify(d)]

\* ---- one task, step by step ----------------------------------------------
\* rev selects the revision whose retry loop runs: "V28" is src/src/monitor.ts,
\* "V13" and "V8" are the earlier revisions of the same function.

Revisions == {"V28", "V13", "V8"}

\* MAX_ATTEMPTS = 15, maxRetries = 5, and the two straight-line lookups of V8
MaxAttemptsOf(r) == IF r = "V28" THEN MAX_ATTEMPTS ELSE IF r = "V13" THEN 5 ELSE 2

\* { limit: 1 } returns at most one signature, { limit: 3 } and { limit: 5 }
\* can return an errored newest one followed by an older good one
OutcomesOf(r) ==
    IF r = "V28" THEN LookupOutcomes
    ELSE LookupOutcomes \cup { [kind |-> "list", sigs |-> <<SigErr, SigOk>>] }

NoSig == [signature |-> "", err |-> FALSE]

\* signatures.find(s => !s.err) of V8
RECURSIVE FindValid(_, _)
FindValid(sigs, i) ==
    IF i > Len(sigs) THEN NoSig
    ELSE IF ~sigs[i].err THEN sigs[i] ELSE FindValid(sigs, i + 1)

\* nothing awaited yet on the SWAP path
NoLookups == [jup |-> [status |-> "none"], dex |-> [status |-> "none"],
              rug |-> [status |-> "none"], send |-> "none",
              \* ms slept since the latest signature lookup, and between
              \* the two lookups before it (0: there were none)
              delay |-> 0, prevDelay |-> 0]

\* the sleep that ends an iteration of the retry loop: sleep(200) (line 301),
\* sleep(1000 + attempts * 500) of V13, sleep(2000) of V8
RetryDelay(r, n) ==
    IF r = "V28" THEN 200 ELSE IF r = "V13" THEN 1000 + n * 500 ELSE 2000

\* await sleep(1000) of line 297
RATE_LIMIT_SLEEP == 1000

\* a lookup is over: the sleeps before it are those of the gap before
LookupOver(l) == [l EXCEPT !.prevDelay = l.delay, !.delay = 0]

TaskInit ==
    /\ rev \in Revisions
    /\ tpc = "lookup"
    /\ signatures = <<>>
    /\ attempts = 0
    /\ calls = 0
    /\ rateLimited = 0
    /\ succeeded = FALSE
    /\ sig = NoSig
    /\ fetched = FALSE
    /\ tTx = TxNull
    /\ details = NoDetails
    /\ sent = 0
    /\ lookups = NoLookups

\* await connection.getSignaturesForAddress(...) returns or throws, in the
\* while loop of V28 and V13
Lookup(out) ==
    /\ tpc = "lookup"
    /\ rev \in {"V28", "V13"}
    /\ calls' = Min(calls + 1, MAX_ATTEMPTS + 1)
    /\ signatures' = SigsAfter(signatures, out)
    /\ rateLimited' = IF out.kind = "throw" /\ out.is429
                      THEN Min(rateLimited + 1, MAX_ATTEMPTS + 1) ELSE rateLimited
    /\ IF BreaksLoop(out)
       THEN /\ tpc' = "exit"
            /\ succeeded' = TRUE
            /\ UNCHANGED attempts
       ELSE IF rev = "V28" /\ out.kind = "throw" /\ out.is429
       THEN /\ tpc' = "sleep1000"
            /\ UNCHANGED <<attempts, succeeded>>
       ELSE /\ attempts' = AttemptsAfter(attempts, out)
            /\ tpc' = IF rev = "V13" /\ ~(attempts' < MaxAttemptsOf(rev))
                      THEN "exit" ELSE "sleep"
            /\ UNCHANGED succeeded
    /\ UNCHANGED <<rev, sig, fetched, tTx, details, sent>>
    /\ lookups' = LookupOver(lookups)
    /\ UNCHANGED <<classVars, pollVars, metaVars>>

\* the two lookups of V8: a throw leaves through the outer catch, an empty
\* first result is retried once after sleep(2000)
LookupV8(out) ==
    /\ tpc = "lookup"
    /\ rev = "V8"
    /\ calls' = Min(calls + 1, MAX_ATTEMPTS + 1)
    /\ signatures' = SigsAfter(signatures, out)
    /\ rateLimited' = IF out.kind = "throw" /\ out.is429
                      THEN Min(rateLimited + 1, MAX_ATTEMPTS + 1) ELSE rateLimited
    /\ IF out.kind = "throw"
       THEN tpc' = "done" /\ UNCHANGED attempts
       ELSE IF Len(out.sigs) = 0 /\ attempts = 0
       THEN tpc' = "sleep" /\ attempts' = 1
       ELSE tpc' = "exit" /\ UNCHANGED attempts
    /\ succeeded' = (out.kind = "list" /\ FindValid(out.sigs, 1) # NoSig)
    /\ UNCHANGED <<rev, sig, fetched, tTx, details, sent>>
    /\ lookups' = LookupOver(lookups)
    /\ UNCHANGED <<classVars, pollVars, metaVars>>

\* await sleep(1000) in the catch block of V28 is over
RateLimitSleepDone ==
    /\ tpc = "sleep1000"
    /\ attempts' = AttemptsAfter(attempts, Out429)
    /\ tpc' = "sleep"
    /\ UNCHANGED <<rev, signatures, calls, rateLimited, succeeded, sig, fetched,
                   tTx, details, sent>>
    /\ lookups' = [lookups EXCEPT !.delay = @ + RATE_LIMIT_SLEEP]
    /\ UNCHANGED <<classVars, pollVars, metaVars>>

\* the sleep between two attempts is over: back to the loop condition
RetrySleepDone ==
    /\ tpc = "sleep"
    /\ tpc' = IF rev = "V8" \/ attempts < MaxAttemptsOf(rev) THEN "lookup" ELSE "exit"
    /\ UNCHANGED <<rev, signatures, attempts, calls, rateLimited, succeeded, sig,
                   fetched, tTx, details, sent>>
    /\ lookups' = [lookups EXCEPT !.delay = @ + RetryDelay(rev, attempts)]
    /\ UNCHANGED <<classVars, pollVars, metaVars>>

\* after the loop: return null, or go on with the signature picked
LoopExit ==
    /\ tpc = "exit"
    /\ IF ~HasSignature(signatures)
       THEN tpc' = "done" /\ UNCHANGED sig
       ELSE IF rev = "V8"
       THEN /\ sig' = FindValid(signatures, 1)
            /\ tpc' = IF sig' = NoSig THEN "done" ELSE "tx"
       ELSE sig' = signatures[1] /\ tpc' = "tx"
    /\ UNCHANGED <<rev, signatures, attempts, calls, rateLimited, succeeded,
                   fetched, tTx, details, sent>>
    /\ UNCHANGED lookups
    /\ UNCHANGED <<classVars, pollVars, metaVars>>

\* await connection.getParsedTransaction(sig) returns or throws; everything
\* up to the next await runs with it
FetchTx(tx) ==
    /\ tpc = "tx"
    /\ rev = "V28"
    /\ fetched' = TRUE
    /\ tTx' = tx
    /\ LET r == TaskResult(signatures, tx, NoData, NoData)
       IN IF r.details.type = "SWAP"
          THEN tpc' = "meta" /\ details' = NoDetails
          ELSE /\ details' = r.details
               /\ tpc' = IF r.notify THEN "send" ELSE "done"
    /\ UNCHANGED <<rev, signatures, attempts, calls, rateLimited, succeeded, sig,
                   sent>>
    /\ UNCHANGED lookups
    /\ UNCHANGED <<classVars, pollVars, metaVars>>

\* What the two market-data requests of a task come to: both fail, one
\* replies, both reply, or Jupiter replies with a price only.
MarketCases ==
    { <<JupFailed("rejected"), [status |-> "rejected", pairs |-> <<>>]>>,
      <<JupReply(TRUE, "0.5", TRUE, "JUP"), [status |-> "notok", pairs |-> <<>>]>>,
      <<JupFailed("notok"), DexReply(<<Pair("DEX", "0.4", 1000, 50)>>)>>,
      <<JupReply(TRUE, "0.5", TRUE, "JUP"),
        DexReply(<<Pair("DEX", "0.4", 1000, 50)>>)>>,
      <<JupReply(TRUE, "0.5", FALSE, ""), DexReply(<<>>)>> }

\* the pair is dropped when either lookup came back without data
JoinLookupsAllOrNothing(tokenData, rugData) ==
    IF tokenData = NoData \/ rugData.riskLevel = "error"
    THEN <<NoData, NoData>>
    ELSE <<tokenData, rugData>>

\* const [tokenData, rugData] = await Promise.all([...]): neither function
\* rejects, so the array holds what each of them returned
JoinLookups(tokenData, rugData) == <<tokenData, rugData>>

\* await Promise.all([fetchTokenMarketData, fetchRugCheckData]) is over: the
\* three requests came to jupRes, dexRes and rugRes
MetaDone(jupRes, dexRes, rugRes) ==
    /\ tpc = "meta"
    /\ lookups' = [lookups EXCEPT !.jup = jupRes, !.dex = dexRes,
                                   !.rug = rugRes]
    /\ LET both == JoinLookups(MarketData(jupRes, dexRes), RugResult(rugRes))
           r == TaskResult(signatures, tTx, both[1], both[2])
       IN /\ details' = r.details
          /\ tpc' = IF r.notify THEN "send" ELSE "done"
    /\ UNCHANGED <<rev, signatures, attempts, calls, rateLimited, succeeded, sig,
                   fetched, tTx, sent>>
    /\ UNCHANGED <<classVars, pollVars, metaVars>>

\* a failed send is tried again
AfterSendRetry(ok) == IF ok THEN "done" ELSE "send"

\* sendTgMessage returns after its try or its catch (lines 74-82); the arrow
\* function has nothing left to run
AfterSend(ok) == "done"

\* await sendTgMessage(tgMsg) is over (bot.sendMessage resolved or rejected)
SendDone(ok) ==
    /\ tpc = "send"
    /\ sent' = sent + 1
    /\ tpc' = AfterSend(ok)
    /\ lookups' = [lookups EXCEPT !.send = IF ok THEN "sent" ELSE "failed"]
    /\ UNCHANGED <<rev, signatures, attempts, calls, rateLimited, succeeded, sig,
                   fetched, tTx, details>>
    /\ UNCHANGED <<classVars, pollVars, metaVars>>

TaskNext ==
    \/ \E out \in OutcomesOf(rev) : Lookup(out)
    \/ \E out \in OutcomesOf(rev) : LookupV8(out)
    \/ RateLimitSleepDone
    \/ RetrySleepDone
    \/ LoopExit
    \/ \E tx \in TaskTx : FetchTx(tx)
    \/ \E m \in MarketCases, r \in RugOutcomes : MetaDone(m[1], m[2], r)
    \/ \E ok \in BOOLEAN : SendDone(ok)

\* ---- the classifier on its own --------------------------------------------

ClassInit ==
    /\ cTx \in AllTx \cup ScenarioTx
                 \cup { TxNull, TxNoMeta, TxThrows,
                        MakeTx(-1, 400000000, <<LogJup>>, <<>>, <<>>) }
    /\ cDetails = NoDetails
    /\ cDone = FALSE
    /\ cAgain = NotCalled

\* the function called on the transaction; the two lookups of the SWAP path
\* come to tokenData and rugData
ClassifyStep(tokenData, rugData) ==
    /\ ~cDone
    /\ cDetails' = ParseTransaction("sig", cTx, Me, tokenData, rugData)
    /\ cDone' = TRUE
    /\ UNCHANGED <<cTx, cAgain>>
    /\ UNCHANGED <<taskVars, pollVars, metaVars>>

\* the function called once more on the same transaction, at another time,
\* with other lookup results
ClassifyAgain(tokenData, rugData) ==
    /\ cDone
    /\ cAgain = NotCalled
    /\ cAgain' = ParseTransaction("sig", cTx, Me, tokenData, rugData)
    /\ UNCHANGED <<cTx, cDetails, cDone>>
    /\ UNCHANGED <<taskVars, pollVars, metaVars>>

\* Transactions with up to three token accounts, of the watched account and
\* of another owner, in every order: a pre balance is 1, a post balance 1 or 3
TokenKeys == { [mint |-> m, owner |-> o] :
                 m \in {MintA, MintB, WSOL_MINT}, o \in {Me, Other} }
                 \ { [mint |-> WSOL_MINT, owner |-> Other] }
Injective(seq) ==
    \A i, j \in 1..Len(seq) :
        (seq[i].mint = seq[j].mint /\ seq[i].owner = seq[j].owner) => i = j
BalanceLists(maxLen, amounts) ==
    LET Entries == { [mint |-> k.mint, owner |-> k.owner, uiAmount |-> q] :
                       k \in TokenKeys, q \in amounts }
    IN { bals \in UNION { [1..n -> Entries] : n \in 0..maxLen } :
           /\ Injective(bals)
           /\ \A i \in 1..Len(bals) :
                 bals[i].owner = Other => bals[i].uiAmount = 1 }
TargetTx ==
    { MakeTx(0, -400000000, <<LogJup>>, pre, post) :
        pre \in BalanceLists(MaxTargetBals, {1}),
        post \in BalanceLists(MaxTargetBals - 1, {1, 3}) }

TargetInit ==
    /\ cTx \in TargetTx
    /\ cDetails = NoDetails
    /\ cDone = FALSE
    /\ cAgain = NotCalled

ClassNext ==
    \/ \E m \in ClassMeta : ClassifyStep(m[1], m[2])
    \/ \E m \in ClassMeta : ClassifyAgain(m[1], m[2])

\* ------------------------------------------------------------------------
\* The polling loop (startPolling)
\* ------------------------------------------------------------------------
\* the entries of wallets.json: account 1 and the cohort
NumWallets == CohortSize + 1
Accounts == 1..NumWallets
NoEntry == -1        \* balanceCache has no entry for the address
NoAccount == -1      \* getMultipleAccountsInfo returned null for the address
InfoVals == {NoAccount} \cup (0..MaxBal)

\* function chunkArray<T>(array, size)
chunkArray(array, size) ==
    [k \in 1..((Len(array) + size - 1) \div size) |->
        SubSeq(array, (k - 1) * size + 1, Min(k * size, Len(array)))]

lamportsToSol(l) == l     \* l / 1e9 SOL, written in units of 0.000000001 SOL

\* info ? info.lamports : 0
Lamports(info) == IF info = NoAccount THEN 0 ELSE info

\* balanceCache.get(wallet.address) ?? 0
CacheRead(cache, addr) == IF cache[addr] = NoEntry THEN 0 ELSE cache[addr]

\* the threshold test written with >= in place of >
IsChangeInclusive(cur, old) ==
    cur # old /\ Abs(lamportsToSol(cur - old)) >= NOISE_THRESHOLD

\* if (cur !== old) { ... if (Math.abs(diffSol) > 0.000000001) ... }
IsChange(cur, old) ==
    cur # old /\ Abs(lamportsToSol(cur - old)) > NOISE_THRESHOLD

\* balanceCache.set moved into the branch that pushes the ChangeRecord
CacheWriteOnRecord(cache, addr, cur, old) ==
    IF cur # old /\ Abs(lamportsToSol(cur - old)) > NOISE_THRESHOLD
    THEN [cache EXCEPT ![addr] = cur] ELSE cache

\* the cache after the body of the detection loop for one account: both
\* branches of the threshold test write cur, an equal balance writes nothing
CacheWrite(cache, addr, cur, old) ==
    IF cur # old THEN [cache EXCEPT ![addr] = cur] ELSE cache

\* for (let i = 0; i < infos.length; i++) { ... }  (lines 484-502)
RECURSIVE DetectLoop(_, _, _, _, _)
DetectLoop(i, ch, infos, cache, ups) ==
    IF i > Len(infos) THEN [cache |-> cache, updates |-> ups]
    ELSE LET wallet == ch[i]
             cur == Lamports(infos[i])
             old == CacheRead(cache, wallet)
         IN DetectLoop(i + 1, ch, infos, CacheWrite(cache, wallet, cur, old),
                IF IsChange(cur, old)
                THEN Append(ups, [wallet |-> wallet, cur |-> cur,
                                  diffSol |-> lamportsToSol(cur - old)])
                ELSE ups)

\* infos.forEach((info, i) => balanceCache.set(chunk[i].address, ...))
RECURSIVE BaselineLoop(_, _, _, _)
BaselineLoop(i, ch, infos, cache) ==
    IF i > Len(infos) THEN cache
    ELSE BaselineLoop(i + 1, ch, infos,
                      [cache EXCEPT ![ch[i]] = Lamports(infos[i])])

\* a catch block that treats the failed reply as "no account" for the chunk
CacheClearedOnFailure(cache, ch) ==
    [a \in DOMAIN cache |-> IF \E i \in 1..Len(ch) : ch[i] = a THEN 0 ELSE cache[a]]

\* the cache after the catch block of a failed batch query (lines 589-596)
CacheAfterFailure(cache, ch) == cache

\* dynamicInterval += 1000 without the test of line 592
BackedOffUnclamped(interval, is429) ==
    IF is429 THEN interval + INTERVAL_BACKOFF ELSE interval

\* line 482 left out
RelaxedNever(interval) == interval

\* dynamicInterval after a batch query that returned / that threw
Relaxed(interval) ==
    IF interval > INTERVAL_FLOOR THEN interval - INTERVAL_RELAX ELSE interval
BackedOff(interval, is429) ==
    IF is429
    THEN IF interval + INTERVAL_BACKOFF > INTERVAL_CEILING
         THEN INTERVAL_CEILING ELSE interval + INTERVAL_BACKOFF
    ELSE interval

\* every update started at once, as before sub-batching was introduced
updateBatchesAtOnce(ups) == <<ups>>
updateBatchesFirstOnly(ups) ==
    IF ups = <<>> THEN <<>>
    ELSE <<SubSeq(ups, 1, Min(MAX_CONCURRENT_TASKS, Len(ups)))>>

\* const updateBatches = chunkArray(updates, MAX_CONCURRENT_TASKS)
updateBatches(ups) == chunkArray(ups, MAX_CONCURRENT_TASKS)

\* ---- what a task can come to -----------------------------------------------
\* Upstream behaviour during one run of the retry loop: the first k lookups do
\* one thing, every later lookup another.
TwoPhase(o1, k, o2) == [i \in 1..MAX_ATTEMPTS |-> IF i <= k THEN o1 ELSE o2]
Scripts == { TwoPhase(o1, k, o2) :
               o1 \in LookupOutcomes, k \in {1, 2, MAX_ATTEMPTS - 1},
               o2 \in LookupOutcomes }
AllEmpty(script) == \A i \in 1..Len(script) : script[i] = OutEmpty

Idle == [st |-> "idle", allEmpty |-> FALSE]
Running == [st |-> "running", allEmpty |-> FALSE]

\* The async arrow function of lines 513-584 run to its end: what became of
\* the ChangeRecord.
RunTask(loop, tx, tokenData, rugData) ==
    LET r == TaskResult(loop.signatures, tx, tokenData, rugData)
    IN [st |-> IF r.notify THEN "notified"
               ELSE IF r.details.type = "NULL" THEN "noevent" ELSE "suppressed",
        allEmpty |-> loop.allEmpty]

\* what the retry loop leaves for each script of lookup outcomes
LoopRuns == { [signatures |-> RetryLoop(script, 1, RetryStart).signatures,
               allEmpty |-> AllEmpty(script)] : script \in Scripts }

TaskOutcomes == { RunTask(loop, tx, td, rd) :
                    loop \in LoopRuns, tx \in TaskTx,
                    td \in TokenResults, rd \in RugResults }


PollInit ==
    /\ GLOBAL_WALLETS = [i \in 1..NumWallets |-> i]
    /\ balanceCache = [a \in Accounts |-> NoEntry]
    /\ dynamicInterval = INITIAL_INTERVAL
    /\ pc = "init"
    /\ currentWallets = [i \in 1..NumWallets |-> i]
    /\ chunkIdx = 1
    /\ updates = <<>>
    /\ batchIdx = 0
    /\ task = [a \in Accounts |-> Idle]
    /\ cycle = 0
    /\ lastSeen = [a \in Accounts |-> NoEntry]
    /\ olds = [a \in Accounts |-> 0]
    /\ prevQ = [a \in Accounts |-> "none"]
    /\ lastQ = [a \in Accounts |-> "none"]
    /\ qChunk = <<>>

chunks == chunkArray(currentWallets, CHUNK_SIZE)
chunk == chunks[chunkIdx]

\* Replies of getMultipleAccountsInfo for a chunk: account 1 reports any
\* balance (or no account), the accounts of the cohort were funded by one
\* distribution and report the same balance, 0 or MaxBal.
Replies(ch) ==
    { [i \in 1..Len(ch) |-> IF ch[i] = 1 THEN f ELSE c] :
        f \in InfoVals, c \in {0, MaxBal} }

InChunk(ch, a) == \E i \in 1..Len(ch) : ch[i] = a

\* lastQ, prevQ: how the latest query that held the account ended, and the
\* one before it
Queried(q, ch, how) == [a \in Accounts |-> IF InChunk(ch, a) THEN how ELSE q[a]]
Shifted(q, p, ch) == [a \in Accounts |-> IF InChunk(ch, a) THEN q[a] ELSE p[a]]

\* old of line 489, as the detection loop read it for each account of ch
OldsRead(ch, cache) ==
    [a \in Accounts |-> IF InChunk(ch, a) THEN CacheRead(cache, a) ELSE olds[a]]

Seen(ch, infos) ==
    [a \in Accounts |->
        IF \E i \in 1..Len(ch) : ch[i] = a
        THEN Lamports(infos[CHOOSE i \in 1..Len(ch) : ch[i] = a])
        ELSE lastSeen[a]]

\* chunk.map in place of batch.map: a task for every account
StartedForAll(ups, b) == [a \in Accounts |-> Running]

\* the tasks of sub-batch b of the update list, all started by batch.map
Started(ups, b) ==
    LET batch == updateBatches(ups)[b]
    IN [a \in Accounts |->
          IF \E i \in 1..Len(batch) : batch[i].wallet = a THEN Running ELSE Idle]

\* the baseline loop goes to its next chunk, or the while loop is entered
InitAdvance ==
    IF chunkIdx < Len(chunks)
    THEN chunkIdx' = chunkIdx + 1 /\ pc' = "init"
    ELSE chunkIdx' = 1 /\ pc' = "top"

\* await sleep(100) is over: next chunk of the cycle, or sleep(dynamicInterval)
EndChunk ==
    IF chunkIdx < Len(chunks)
    THEN chunkIdx' = chunkIdx + 1 /\ pc' = "query"
    ELSE chunkIdx' = chunkIdx /\ pc' = "top"

InitQueryOK(infos) ==
    /\ pc = "init"
    /\ balanceCache' = BaselineLoop(1, chunk, infos, balanceCache)
    /\ lastSeen' = Seen(chunk, infos)
    /\ prevQ' = Shifted(lastQ, prevQ, chunk)
    /\ lastQ' = Queried(lastQ, chunk, "baseline")
    /\ InitAdvance
    /\ UNCHANGED <<GLOBAL_WALLETS, dynamicInterval, currentWallets, updates,
                   batchIdx, task, cycle, olds, qChunk>>
    /\ UNCHANGED <<classVars, taskVars, metaVars>>

InitQueryFail ==
    /\ pc = "init"
    /\ prevQ' = Shifted(lastQ, prevQ, chunk)
    /\ lastQ' = Queried(lastQ, chunk, "nobaseline")
    /\ InitAdvance
    /\ UNCHANGED <<GLOBAL_WALLETS, balanceCache, dynamicInterval, currentWallets,
                   updates, batchIdx, task, cycle, lastSeen, olds, qChunk>>
    /\ UNCHANGED <<classVars, taskVars, metaVars>>

\* top of while (true): the list is read once per cycle
CycleStart ==
    /\ pc = "top"
    /\ cycle < MaxCycles
    /\ cycle' = cycle + 1
    /\ currentWallets' = GLOBAL_WALLETS
    /\ chunkIdx' = 1
    /\ pc' = IF Len(GLOBAL_WALLETS) = 0 THEN "top" ELSE "query"
    /\ UNCHANGED <<GLOBAL_WALLETS, balanceCache, dynamicInterval, updates,
                   batchIdx, task, lastSeen, olds, prevQ, lastQ, qChunk>>
    /\ UNCHANGED <<classVars, taskVars, metaVars>>

\* await connection.getMultipleAccountsInfo(...) returns
BatchQueryOK(infos) ==
    /\ pc = "query"
    /\ dynamicInterval' = Relaxed(dynamicInterval)
    /\ LET r == DetectLoop(1, chunk, infos, balanceCache, <<>>)
       IN /\ balanceCache' = r.cache
          /\ updates' = r.updates
          /\ IF Len(r.updates) > 0
             THEN /\ batchIdx' = 1
                  /\ task' = Started(r.updates, 1)
                  /\ pc' = "tasks"
                  /\ UNCHANGED chunkIdx
             ELSE /\ EndChunk
                  /\ UNCHANGED <<batchIdx, task>>
    /\ lastSeen' = Seen(chunk, infos)
    /\ olds' = OldsRead(chunk, balanceCache)
    /\ prevQ' = Shifted(lastQ, prevQ, chunk)
    /\ lastQ' = Queried(lastQ, chunk, "ok")
    /\ qChunk' = chunk
    /\ UNCHANGED <<GLOBAL_WALLETS, currentWallets, cycle>>
    /\ UNCHANGED <<classVars, taskVars, metaVars>>

\* await connection.getMultipleAccountsInfo(...) throws
BatchQueryFail(is429) ==
    /\ pc = "query"
    /\ dynamicInterval' = BackedOff(dynamicInterval, is429)
    /\ balanceCache' = CacheAfterFailure(balanceCache, chunk)
    /\ updates' = <<>>
    /\ prevQ' = Shifted(lastQ, prevQ, chunk)
    /\ lastQ' = Queried(lastQ, chunk, "fail")
    /\ qChunk' = chunk
    /\ EndChunk
    /\ UNCHANGED <<GLOBAL_WALLETS, currentWallets, batchIdx, task, cycle,
                   lastSeen, olds>>
    /\ UNCHANGED <<classVars, taskVars, metaVars>>

\* one task of the running sub-batch runs to its end
TaskRun(a, outcome) ==
    /\ pc = "tasks"
    /\ task[a].st = "running"
    /\ task' = [task EXCEPT ![a] = outcome]
    /\ UNCHANGED <<GLOBAL_WALLETS, balanceCache, dynamicInterval, pc,
                   currentWallets, chunkIdx, updates, batchIdx, cycle, lastSeen,
                   olds, prevQ, lastQ, qChunk>>
    /\ UNCHANGED <<classVars, taskVars, metaVars>>

\* await Promise.all(...) and await sleep(200) are over
SubBatchDone ==
    /\ pc = "tasks"
    /\ \A a \in Accounts : task[a].st # "running"
    /\ IF batchIdx < Len(updateBatches(updates))
       THEN /\ batchIdx' = batchIdx + 1
            /\ task' = Started(updates, batchIdx + 1)
            /\ UNCHANGED <<pc, chunkIdx>>
       ELSE /\ batchIdx' = 0
            /\ task' = [a \in Accounts |-> Idle]
            /\ EndChunk
    /\ UNCHANGED <<GLOBAL_WALLETS, balanceCache, dynamicInterval, currentWallets,
                   updates, cycle, lastSeen, olds, prevQ, lastQ, qChunk>>
    /\ UNCHANGED <<classVars, taskVars, metaVars>>

PollNext ==
    \/ \E infos \in Replies(chunk) : InitQueryOK(infos)
    \/ InitQueryFail
    \/ CycleStart
    \/ \E infos \in Replies(chunk) : BatchQueryOK(infos)
    \/ \E is429 \in BOOLEAN : BatchQueryFail(is429)
    \/ \E a \in Accounts, o \in TaskOutcomes : TaskRun(a, o)
    \/ SubBatchDone


\* ---- the metadata resolver on its own --------------------------------------
NotReturned == [returned |-> FALSE]
Pending == [status |-> "pending", info |-> FALSE, price |-> "", extra |-> FALSE,
            symbol |-> "", pairs |-> <<>>]
HasSettled(settled, src) == \E i \in 1..Len(settled) : settled[i] = src

\* the function goes on as soon as one request has settled
AnySettled(settled) == Len(settled) >= 1

\* await Promise.allSettled([...]): both requests have settled
AllSettled(settled) == HasSettled(settled, "jup") /\ HasSettled(settled, "dex")

\* the entry of the awaited array for a request
SettledEntry(res, src, settled) == IF HasSettled(settled, src) THEN res ELSE Pending

ResolveInit ==
    /\ rJup \in JupOutcomes
    /\ rDex \in DexOutcomes
    /\ rSettled = <<>>
    /\ rResult = NotReturned

ResolveIdle ==
    /\ rJup = Pending
    /\ rDex = Pending
    /\ rSettled = <<>>
    /\ rResult = NotReturned

\* one of the two requests is fulfilled or rejected
Settle(src) ==
    /\ ~HasSettled(rSettled, src)
    /\ rResult = NotReturned
    /\ rSettled' = Append(rSettled, src)
    /\ UNCHANGED <<rJup, rDex, rResult>>
    /\ UNCHANGED <<classVars, taskVars, pollVars, cacheVars, viewVars>>

\* lines 199-243 run on the settled requests
Resolve ==
    /\ AllSettled(rSettled)
    /\ rResult = NotReturned
    /\ rResult' = MarketData(SettledEntry(rJup, "jup", rSettled),
                             SettledEntry(rDex, "dex", rSettled))
    /\ UNCHANGED <<rJup, rDex, rSettled>>
    /\ UNCHANGED <<classVars, taskVars, pollVars, cacheVars, viewVars>>

ResolveNext ==
    \/ Settle("jup")
    \/ Settle("dex")
    \/ Resolve

\* ---- the two caches over time ----------------------------------------------
Mints == {MintA}
NoCached == [timestamp |-> -1]
NoCall == [st |-> "idle"]
\* the clock moves by a millisecond, to the last millisecond of a TTL, or by
\* a whole TTL
TickSteps == {1, CACHE_TTL - 1, CACHE_TTL}

\* an entry is served up to and including the TTL
FreshInclusive(cached, t) ==
    cached # NoCached /\ t - cached.timestamp <= CACHE_TTL

\* cached && (Date.now() - cached.timestamp < CACHE_TTL)
Fresh(cached, t) ==
    cached # NoCached /\ t - cached.timestamp < CACHE_TTL

\* age of the entry a call found, -1 for none
AgeAt(cached, t) == IF cached = NoCached THEN -1 ELSE t - cached.timestamp

\* the call after the cache check of lines 190-191 / 250-251
Checked(cache, mint) ==
    IF Fresh(cache[mint], now)
    THEN [st |-> "returned", mint |-> mint, via |-> "cache",
          age |-> AgeAt(cache[mint], now), data |-> cache[mint].data]
    ELSE [st |-> "flight", mint |-> mint, via |-> "net",
          age |-> AgeAt(cache[mint], now), data |-> NoData]

CacheInit ==
    /\ now = 0
    /\ ticks = 0
    /\ tokenCache = [m \in Mints |-> NoCached]
    /\ rugCache = [m \in Mints |-> NoCached]
    /\ tokCall = NoCall
    /\ rugCall = NoCall

\* time passes
Tick(d) ==
    /\ ticks < MaxTicks
    /\ ticks' = ticks + 1
    /\ now' = now + d
    /\ UNCHANGED <<tokenCache, rugCache, tokCall, rugCall>>
    /\ UNCHANGED <<classVars, taskVars, pollVars, resolveVars, viewVars>>

\* fetchTokenMarketData(mint) up to its await
TokenLookup(mint) ==
    /\ tokCall.st # "flight"
    /\ tokCall' = Checked(tokenCache, mint)
    /\ UNCHANGED <<now, ticks, tokenCache, rugCache, rugCall>>
    /\ UNCHANGED <<classVars, taskVars, pollVars, resolveVars, viewVars>>

\* if (!found) return null; tokenCache.set(mint, ...)  (lines 239-242)
TokenCached(cache, mint, result, t) ==
    IF result = NoData THEN cache
    ELSE [cache EXCEPT ![mint] = [data |-> result, timestamp |-> t]]

\* the two requests have settled: lines 199-243
TokenReply(jupRes, dexRes) ==
    /\ tokCall.st = "flight"
    /\ LET result == MarketData(jupRes, dexRes)
       IN /\ tokenCache' = TokenCached(tokenCache, tokCall.mint, result, now)
          /\ tokCall' = [tokCall EXCEPT !.st = "returned", !.data = result]
    /\ UNCHANGED <<now, ticks, rugCache, rugCall>>
    /\ UNCHANGED <<classVars, taskVars, pollVars, resolveVars, viewVars>>

\* fetchRugCheckData(mint) up to its await
RugLookup(mint) ==
    /\ rugCall.st # "flight"
    /\ rugCall' = Checked(rugCache, mint)
    /\ UNCHANGED <<now, ticks, tokenCache, rugCache, tokCall>>
    /\ UNCHANGED <<classVars, taskVars, pollVars, resolveVars, viewVars>>

\* rugCache.set before every return
RugCachedAlways(cache, mint, res, result, t) ==
    [cache EXCEPT ![mint] = [data |-> result, timestamp |-> t]]

\* the three early returns of lines 256, 257 and 266 come before or
\* instead of rugCache.set (line 264)
RugCached(cache, mint, res, result, t) ==
    IF res.status # "ok" THEN cache
    ELSE [cache EXCEPT ![mint] = [data |-> result, timestamp |-> t]]

\* the request is over: lines 255-266
RugReply(res) ==
    /\ rugCall.st = "flight"
    /\ LET result == RugResult(res)
       IN /\ rugCache' = RugCached(rugCache, rugCall.mint, res, result, now)
          /\ rugCall' = [rugCall EXCEPT !.st = "returned", !.data = result]
    /\ UNCHANGED <<now, ticks, tokenCache, tokCall>>
    /\ UNCHANGED <<classVars, taskVars, pollVars, resolveVars, viewVars>>

CacheNext ==
    \/ \E d \in TickSteps : Tick(d)
    \/ \E m \in Mints : TokenLookup(m)
    \/ \E c \in MarketCases : TokenReply(c[1], c[2])
    \/ \E m \in Mints : RugLookup(m)
    \/ \E res \in RugOutcomes : RugReply(res)

\* ---- price display (formatPrice) --------------------------------------------
\* A price string parses to NaN, to zero, or to the positive number
\* m * 10^e; m is a decimal mantissa of at most five digits.
MinPriceExp == -14
Mantissas == {1, 5, 31, 999, 12345}
Prices ==
    { [kind |-> k, m |-> 0, e |-> 0] : k \in {"nan", "zero"} }
    \cup { [kind |-> "num", m |-> m, e |-> e] :
             m \in Mantissas, e \in MinPriceExp..MaxPriceExp }

RECURSIVE Pow10(_)
Pow10(k) == IF k = 0 THEN 1 ELSE 10 * Pow10(k - 1)
RECURSIVE Digits(_)
Digits(m) == IF m < 10 THEN 1 ELSE 1 + Digits(m \div 10)

\* price < 10^k for the number m * 10^e
Below(p, k) == Digits(p.m) + p.e <= k

\* Number.prototype.toFixed(n): for a number of 10^21 or more the result is
\* the exponent form of ToString; otherwise n decimals, the integer written
\* before and after the point being digits followed by zeros many "0".
\* Digits that do not fit are rounded to nearest; tie marks a decimal tie,
\* where the last digit follows the binary value of the double.
toFixed(p, n) ==
    IF ~Below(p, 21)
    THEN [prefix |-> "$", notation |-> "exponent", decimals |-> 0,
          digits |-> p.m, zeros |-> p.e, tie |-> FALSE]
    ELSE IF p.e + n >= 0
    THEN [prefix |-> "$", notation |-> "fixed", decimals |-> n,
          digits |-> p.m, zeros |-> p.e + n, tie |-> FALSE]
    ELSE LET k == 0 - (p.e + n)
         IN IF k > Digits(p.m)
            THEN [prefix |-> "$", notation |-> "fixed", decimals |-> n,
                  digits |-> 0, zeros |-> 0, tie |-> FALSE]
            ELSE LET q == p.m \div Pow10(k)
                     r == p.m % Pow10(k)
                 IN [prefix |-> "$", notation |-> "fixed", decimals |-> n,
                     digits |-> IF 2 * r > Pow10(k) THEN q + 1 ELSE q,
                     zeros |-> 0,
                     tie |-> 2 * r = Pow10(k)]

\* Lines 172-181
formatPrice(p) ==
    IF p.kind # "num"
    THEN [prefix |-> "$", notation |-> "fixed", decimals |-> 0,
          digits |-> 0, zeros |-> 0, tie |-> FALSE]
    ELSE IF Below(p, -8) THEN toFixed(p, 10)
    ELSE IF Below(p, -5) THEN toFixed(p, 8)
    ELSE IF Below(p, -2) THEN toFixed(p, 6)
    ELSE IF Below(p, 0) THEN toFixed(p, 4)
    ELSE toFixed(p, 2)

NotFormatted == [prefix |-> ""]

FormatInit == fmt \in { [in |-> p, out |-> NotFormatted] : p \in Prices }
FormatIdle == fmt = [in |-> [kind |-> "nan", m |-> 0, e |-> 0], out |-> NotFormatted]

FormatStep ==
    /\ fmt.out = NotFormatted
    /\ fmt' = [fmt EXCEPT !.out = formatPrice(fmt.in)]
    /\ UNCHANGED <<classVars, taskVars, pollVars, resolveVars, cacheVars, ctl>>

\* ---- the polling loop with its tasks counted --------------------------------
\* The lists config files hold: the longest, a shorter one in another order,
\* and none (file missing or without a valid entry).
ListA == [i \in 1..MaxListed |-> i]
ListB == [i \in 1..(CHUNK_SIZE + 1) |-> MaxListed + 1 - i]
WalletLists == {ListA, ListB, <<>>}

\* ChangeRecords a batch query yields
UpdateCounts == {0, 1, MaxUpdates}

\* where a task stands: resolving its signature, fetching and classifying
\* the transaction, awaiting the metadata and risk lookups, sending
TaskPhases == {"sig", "fetch", "meta", "send"}
NoTasks == [p \in TaskPhases |-> 0]
NumRunning(t) == t["sig"] + t["fetch"] + t["meta"] + t["send"]

\* the list read on every pass of the for loop rather than once per cycle
CycleListLive(c) == c.GLOBAL_WALLETS

\* const dynamicChunks = chunkArray(currentWallets, CHUNK_SIZE) (line 474)
CycleList(c) == c.currentWallets

dynamicChunks == chunkArray(CycleList(ctl), CHUNK_SIZE)

\* GLOBAL_WALLETS made empty by a reload that found no valid entry
ReloadedAlways(old, newWallets) == newWallets

\* if (newWallets.length > 0) GLOBAL_WALLETS = newWallets (lines 135-138)
Reloaded(old, newWallets) == IF Len(newWallets) > 0 THEN newWallets ELSE old

\* the error leaves the for loop
Rethrown == "halted"

\* catch (e: any) { ... } of lines 589-596 returns to the for loop
Caught == "next"

CtlStart(list) ==
    [GLOBAL_WALLETS |-> list, currentWallets |-> list,
     pc |-> IF Len(list) = 0 THEN "top" ELSE "baseline",
     chunkIdx |-> 1, dynamicInterval |-> INTERVAL_FLOOR,
     pending |-> 0, tasks |-> NoTasks,
     \* not program state: the delay and the list when the cycle began, the
     \* accounts queried in it, and whether a call answered 429 during the
     \* cycle and during the batch
     startInterval |-> INTERVAL_FLOOR, snapshot |-> list, visited |-> <<>>,
     signal |-> FALSE, batchSignal |-> FALSE]

CtlIdle == ctl = CtlStart(<<>>)
CtlInit(lists) == ctl \in {CtlStart(l) : l \in lists}

CtlFrame == UNCHANGED <<classVars, taskVars, pollVars, resolveVars, cacheVars, fmt>>

\* for (const chunk of chunks) of the baseline (lines 460-468), either
\* branch of its try
CtlBaseline(ok) ==
    /\ ctl.pc = "baseline"
    /\ ctl' = IF ctl.chunkIdx < Len(chunkArray(ctl.currentWallets, CHUNK_SIZE))
              THEN [ctl EXCEPT !.chunkIdx = @ + 1]
              ELSE [ctl EXCEPT !.chunkIdx = 1, !.pc = "top"]
    /\ CtlFrame

\* top of while (true), lines 473-474
CtlCycleStart ==
    /\ ctl.pc = "top"
    /\ ctl' = [ctl EXCEPT !.currentWallets = ctl.GLOBAL_WALLETS,
                          !.chunkIdx = 1,
                          !.pc = IF Len(ctl.GLOBAL_WALLETS) = 0
                                 THEN "top" ELSE "query",
                          !.startInterval = ctl.dynamicInterval,
                          !.snapshot = ctl.GLOBAL_WALLETS,
                          !.visited = <<>>,
                          !.signal = FALSE, !.batchSignal = FALSE]
    /\ CtlFrame

\* batch.map(async (update) => ...) for the next MAX_CONCURRENT_TASKS records
StartTasks(c, n) ==
    [c EXCEPT !.tasks = [NoTasks EXCEPT !["sig"] = Min(n, MAX_CONCURRENT_TASKS)],
              !.pending = n - Min(n, MAX_CONCURRENT_TASKS),
              !.pc = "tasks"]

\* await sleep(100), then the next chunk or sleep(dynamicInterval)
CtlEndChunk(c) ==
    IF c.chunkIdx < Len(dynamicChunks)
    THEN [c EXCEPT !.chunkIdx = @ + 1, !.pc = "query", !.batchSignal = FALSE]
    ELSE [c EXCEPT !.pc = "top", !.batchSignal = FALSE]

\* getMultipleAccountsInfo returned and the detection loop found n changes
CtlQueryOK(n) ==
    /\ ctl.pc = "query"
    /\ n <= Len(dynamicChunks[ctl.chunkIdx])
    /\ LET c == [ctl EXCEPT !.dynamicInterval = Relaxed(@),
                            !.visited = @ \o dynamicChunks[ctl.chunkIdx]]
       IN ctl' = IF n > 0 THEN StartTasks(c, n) ELSE CtlEndChunk(c)
    /\ CtlFrame

\* getMultipleAccountsInfo threw (lines 589-597)
CtlQueryFail(is429) ==
    /\ ctl.pc = "query"
    /\ LET c == [ctl EXCEPT !.dynamicInterval = BackedOff(@, is429),
                            !.visited = @ \o dynamicChunks[ctl.chunkIdx],
                            !.signal = @ \/ is429,
                            !.batchSignal = @ \/ is429]
       IN ctl' = IF Caught = "next" THEN CtlEndChunk(c)
                 ELSE [c EXCEPT !.pc = "halted"]
    /\ CtlFrame

\* where the awaited call of a phase leaves the task, and whether the call
\* answered 429: "out" is the end of the arrow function
PhaseOutcomes(phase) ==
    CASE phase = "sig" ->
           { [to |-> "fetch", limited |-> FALSE],   \* signature found (295)
             [to |-> "out", limited |-> FALSE],     \* none after 15 tries (304)
             [to |-> "sig", limited |-> TRUE] }     \* 429, next try (297)
      [] phase = "fetch" ->
           { [to |-> "meta", limited |-> FALSE],    \* swap: lookups (378)
             [to |-> "send", limited |-> FALSE],    \* transfer to notify
             [to |-> "out", limited |-> FALSE],     \* null or filtered event
             [to |-> "out", limited |-> TRUE] }     \* 429, caught (433)
      [] phase = "meta" ->
           { [to |-> "send", limited |-> b] : b \in BOOLEAN }
      [] phase = "send" ->
           { [to |-> "out", limited |-> b] : b \in BOOLEAN }

Moved(t, from, to) ==
    IF to = "out" THEN [t EXCEPT ![from] = @ - 1]
    ELSE IF to = from THEN t
    ELSE [t EXCEPT ![from] = @ - 1, ![to] = @ + 1]

\* one awaited call of one task of the sub-batch settles
CtlTaskStep(phase, o) ==
    /\ ctl.pc = "tasks"
    /\ ctl.tasks[phase] > 0
    /\ o \in PhaseOutcomes(phase)
    /\ ctl' = [ctl EXCEPT !.tasks = Moved(@, phase, o.to),
                          !.signal = @ \/ o.limited,
                          !.batchSignal = @ \/ o.limited]
    /\ CtlFrame

\* batch.map(...) not awaited
BatchNotAwaited(t) == TRUE

\* await Promise.all(batch.map(...)): every task of the sub-batch has ended
BatchAwaited(t) == NumRunning(t) = 0

\* await Promise.all(...) resolved, await sleep(200) is over (lines 513-587)
CtlSubBatchDone ==
    /\ ctl.pc = "tasks"
    /\ BatchAwaited(ctl.tasks)
    /\ ctl' = IF ctl.pending > 0 THEN StartTasks(ctl, ctl.pending)
              ELSE CtlEndChunk(ctl)
    /\ CtlFrame

\* the watcher's callback after the file changed (lines 131-141)
CtlReload(newWallets) ==
    /\ ctl.pc # "halted"
    /\ ctl' = [ctl EXCEPT !.GLOBAL_WALLETS = Reloaded(@, newWallets)]
    /\ CtlFrame

CtlTasksNext ==
    \/ \E phase \in TaskPhases : \E o \in PhaseOutcomes(phase) : CtlTaskStep(phase, o)
    \/ CtlSubBatchDone

\* the loop over one list: every answer of the batch query, at most one
\* change per batch
DelayNext ==
    \/ \E ok \in BOOLEAN : CtlBaseline(ok)
    \/ CtlCycleStart
    \/ \E n \in {0, 1} : CtlQueryOK(n)
    \/ \E is429 \in BOOLEAN : CtlQueryFail(is429)
    \/ CtlTasksNext

\* the loop under reloads, with full sub-batches
LoopNext ==
    \/ \E ok \in BOOLEAN : CtlBaseline(ok)
    \/ CtlCycleStart
    \/ \E n \in UpdateCounts : CtlQueryOK(n)
    \/ CtlQueryFail(FALSE)
    \/ CtlTasksNext
    \/ \E l \in WalletLists : CtlReload(l)

\* ---- wallets.json and its loading --------------------------------------------
\* An entry of the file's array: its address is a valid public key ("key"),
\* a string new PublicKey rejects ("bad") or absent ("none"); or the entry is
\* null, which has no properties to read ("null").
KeyAddrs == {1, 2}
Items == { [kind |-> "key", addr |-> a] : a \in KeyAddrs }
           \cup { [kind |-> k, addr |-> 0] : k \in {"bad", "none", "null"} }
RawLists == UNION { [1..n -> Items] : n \in 0..MaxItems }
\* the file: absent, not JSON, or JSON holding an array
NoFile == [state |-> "missing", raw |-> <<>>]
BadJson == [state |-> "unparsable", raw |-> <<>>]
Files == {NoFile, BadJson} \cup { [state |-> "parsed", raw |-> r] : r \in RawLists }

IsKey(item) == item.kind = "key"
Addr(item) == item.addr
AddrsOf(items) == [i \in 1..Len(items) |-> Addr(items[i])]

\* loadWalletConfigs (lines 101-126) with GLOBAL_WALLETS = global
loadWalletConfigs(file, global) ==
    IF file.state = "missing" THEN <<>>                          \* line 103
    ELSE IF file.state = "unparsable" THEN global                \* 106, 123-125
    ELSE IF \E i \in 1..Len(file.raw) : file.raw[i].kind = "null"
         THEN global                                             \* 110, 123-125
    ELSE AddrsOf(SelectSeq(file.raw, IsKey))                     \* 108-122

\* before main has read the file (line 94)
CtlBoot == [CtlStart(<<>>) EXCEPT !.pc = "main"]

\* main, lines 606-611: the list is loaded, the watcher and the loop start
CtlMain(file) ==
    /\ ctl.pc = "main"
    /\ ctl' = CtlStart(loadWalletConfigs(file, ctl.GLOBAL_WALLETS))
    /\ CtlFrame

\* the watcher's callback with the file as it is then (lines 132-139)
CtlWatch(file) ==
    /\ ctl.pc # "main"
    /\ CtlReload(loadWalletConfigs(file, ctl.GLOBAL_WALLETS))

\* the monitor from its start, under any sequence of edits of the file
ConfigNext ==
    \/ \E file \in Files : CtlMain(file)
    \/ \E file \in Files : CtlWatch(file)
    \/ \E ok \in BOOLEAN : CtlBaseline(ok)
    \/ CtlCycleStart
    \/ \E n \in {0, 1} : CtlQueryOK(n)
    \/ CtlQueryFail(FALSE)
    \/ CtlTasksNext

ViewIdle == FormatIdle /\ CtlIdle

MetaIdle == ResolveIdle /\ CacheInit /\ ViewIdle

ClassIdle ==
    cTx = TxNull /\ cDetails = NoDetails /\ cDone = FALSE /\ cAgain = NotCalled
TaskIdle == TaskInit /\ rev = "V28"

\* the monitor: baseline, then the polling cycles with their tasks run whole
Init == PollInit /\ TaskIdle /\ ClassIdle /\ MetaIdle
Next == PollNext
Spec == Init /\ [][Next]_vars

\* the classification of one transaction drawn from AllTx
InitClassify == ClassInit /\ TaskIdle /\ PollInit /\ MetaIdle
SpecClassify == InitClassify /\ [][ClassNext]_vars

\* the classification of one transaction drawn from TargetTx
InitTarget == TargetInit /\ TaskIdle /\ PollInit /\ MetaIdle
TargetNext == \E m \in ClassMeta : ClassifyStep(m[1], m[2])
SpecTarget == InitTarget /\ [][TargetNext]_vars

\* one task of any revision, await by await
InitTask == TaskInit /\ ClassIdle /\ PollInit /\ MetaIdle
SpecTask == InitTask /\ [][TaskNext]_vars

\* the scheduler runs a task whose awaited call has settled
InitResolve ==
    ResolveInit /\ CacheInit /\ ViewIdle /\ TaskIdle /\ ClassIdle /\ PollInit
InitCache ==
    CacheInit /\ ResolveIdle /\ ViewIdle /\ TaskIdle /\ ClassIdle /\ PollInit
InitFormat ==
    /\ FormatInit /\ CtlIdle
    /\ ResolveIdle /\ CacheInit /\ TaskIdle /\ ClassIdle /\ PollInit
InitCtl(lists) ==
    /\ CtlInit(lists) /\ FormatIdle
    /\ ResolveIdle /\ CacheInit /\ TaskIdle /\ ClassIdle /\ PollInit
InitDelay == InitCtl({ListB})
InitLoop == InitCtl(WalletLists)
SpecDelay == InitDelay /\ [][DelayNext]_vars
SpecDelayFair == SpecDelay /\ WF_vars(DelayNext)
SpecLoop == InitLoop /\ [][LoopNext]_vars
InitConfig ==
    /\ ctl = CtlBoot /\ FormatIdle
    /\ ResolveIdle /\ CacheInit /\ TaskIdle /\ ClassIdle /\ PollInit
SpecConfig == InitConfig /\ [][ConfigNext]_vars
SpecFormat == InitFormat /\ [][FormatStep]_vars
SpecCache == InitCache /\ [][CacheNext]_vars
SpecResolve == InitResolve /\ [][ResolveNext]_vars
SpecTaskFair == SpecTask /\ WF_vars(TaskNext)

\* ------------------------------------------------------------------------
\* Properties
\* ------------------------------------------------------------------------
InUpdates(ups, a) == \E i \in 1..Len(ups) : ups[i].wallet = a
RecordOf(ups, a) == ups[CHOOSE i \in 1..Len(ups) : ups[i].wallet = a]
RunningTasks == { a \in Accounts : task[a].st = "running" }
\* the balance the latest successful query reported, read as the cache reads
StaleBalance(a) == IF lastSeen[a] = NoEntry THEN 0 ELSE lastSeen[a]

\* C1: after a successful batch query, an account of the batch has a
\* ChangeRecord exactly when the balance returned differs from the balance that
\* was cached by more than the threshold (strictly), and the record carries the
\* new balance and the signed difference.
C1_RecordIffAboveThreshold ==
    \A i \in 1..Len(qChunk) :
        LET a == qChunk[i]
        IN lastQ[a] = "ok" =>
             /\ InUpdates(updates, a)
                   <=> Abs(lastSeen[a] - olds[a]) > NOISE_THRESHOLD
             /\ InUpdates(updates, a) =>
                   /\ RecordOf(updates, a).cur = lastSeen[a]
                   /\ RecordOf(updates, a).diffSol = lastSeen[a] - olds[a]

\* one query produced a record for a change above the threshold and none for
\* a change of exactly the threshold
C1_Witness ==
    /\ pc = "tasks"
    /\ \E a, b \in Accounts :
          /\ lastQ[a] = "ok" /\ lastQ[b] = "ok"
          /\ Abs(lastSeen[a] - olds[a]) > NOISE_THRESHOLD
          /\ InUpdates(updates, a)
          /\ Abs(lastSeen[b] - olds[b]) = NOISE_THRESHOLD
          /\ ~InUpdates(updates, b)

\* C2: the cache reads, for every account, the balance returned by the latest
\* successful batch query that held the account, whether or not that query
\* produced a ChangeRecord for it.
C2_CacheIsLatestBalance ==
    \A a \in Accounts :
        lastSeen[a] # NoEntry => CacheRead(balanceCache, a) = lastSeen[a]

\* a second change of exactly the threshold in a row: cached, not recorded
C2_Witness ==
    \E a \in Accounts :
        /\ prevQ[a] = "ok" /\ lastQ[a] = "ok"
        /\ olds[a] = NOISE_THRESHOLD
        /\ lastSeen[a] = 2 * NOISE_THRESHOLD
        /\ ~InUpdates(updates, a)
        /\ balanceCache[a] = lastSeen[a]

\* C3: a batch query that fails leaves the cache as it was, produces no
\* ChangeRecord and starts no task; the next successful query of the batch
\* records exactly the accounts whose balance differs by more than the
\* threshold from the one the last successful query reported.
C3_FailedQueryLeavesCache ==
    [][ /\ (pc = "query" /\ lastQ'[chunk[1]] = "fail") =>
              /\ balanceCache' = balanceCache
              /\ updates' = <<>>
              /\ pc' # "tasks"
              /\ \A a \in Accounts : task'[a].st = "idle"
        /\ (pc = "query" /\ lastQ[chunk[1]] = "fail" /\ lastQ'[chunk[1]] = "ok") =>
              \A i \in 1..Len(chunk) :
                  InUpdates(updates', chunk[i])
                     <=> Abs(lastSeen'[chunk[i]] - StaleBalance(chunk[i]))
                            > NOISE_THRESHOLD
      ]_vars

\* a change recorded by the first successful query after a failed one
C3_Witness ==
    /\ pc = "tasks"
    /\ \E a \in Accounts :
          /\ prevQ[a] = "fail" /\ lastQ[a] = "ok"
          /\ InUpdates(updates, a)
          /\ olds[a] # lastSeen[a]

\* C4: at no time are more than MAX_CONCURRENT_TASKS tasks in flight.
C4_BoundedTasks == Cardinality(RunningTasks) <= MAX_CONCURRENT_TASKS

\* more ChangeRecords than the bound, and exactly the bound in flight
C4_Witness ==
    /\ Len(updates) > MAX_CONCURRENT_TASKS
    /\ Cardinality(RunningTasks) = MAX_CONCURRENT_TASKS

\* C5: the retry loop issues at most the revision's maximum number of
\* lookups, and under a fair scheduler it is eventually left for good.
C5_RetryLoopTerminates ==
    /\ [](calls <= MaxAttemptsOf(rev))
    /\ <>[](tpc \notin {"lookup", "sleep1000", "sleep", "exit"})

\* the whole budget of monitor.ts was spent and the loop was left
C5_Witness ==
    /\ rev = "V28"
    /\ calls = MAX_ATTEMPTS
    /\ ~succeeded
    /\ tpc = "done"

\* C6: in monitor.ts the lag retries counted never exceed the lookups that
\* were not rate-limited.
C6_RateLimitKeepsBudget ==
    rev = "V28" => attempts + rateLimited <= calls

\* C7: monitor.ts goes on to fetch, classify or dispatch only after an
\* attempt that returned a signature whose newest entry is not errored.
C7_ProceedsOnlyAfterSuccess ==
    (/\ rev = "V28"
     /\ tpc \in {"tx", "meta", "send"} \/ fetched \/ details # NoDetails \/ sent > 0)
        => succeeded

\* C8: a task whose lookups all returned zero signatures ends with no event
\* and no notification, while the cache holds the new balance of its record.
C8_NoSignatureNoEvent ==
    \A a \in Accounts :
        task[a].allEmpty =>
            /\ task[a].st = "noevent"
            /\ InUpdates(updates, a)
            /\ Abs(RecordOf(updates, a).diffSol) > NOISE_THRESHOLD
            /\ balanceCache[a] = RecordOf(updates, a).cur

\* such a task has run to its end
C8_Witness ==
    \E a \in Accounts :
        /\ task[a].allEmpty
        /\ task[a].st = "noevent"
        /\ Abs(lastSeen[a] - olds[a]) > NOISE_THRESHOLD
        /\ balanceCache[a] = lastSeen[a]

\* C9: a task exists for an account only while the cycle's query holds a
\* ChangeRecord for it, and an account whose balance equals the cached one has
\* no record and no task.
C9_TaskOnlyForRecord ==
    \A a \in Accounts :
        /\ task[a].st # "idle" =>
              /\ lastQ[a] = "ok"
              /\ InUpdates(updates, a)
              /\ Abs(lastSeen[a] - olds[a]) > NOISE_THRESHOLD
        /\ (lastQ[a] = "ok" /\ lastSeen[a] = olds[a]) =>
              /\ task[a].st = "idle"
              /\ InChunk(qChunk, a) => ~InUpdates(updates, a)

\* the same balance in two successive cycles, next to an account that was
\* notified
C9_Witness ==
    /\ cycle = 2
    /\ \E a, b \in Accounts :
          /\ prevQ[a] = "ok" /\ lastQ[a] = "ok"
          /\ lastSeen[a] = olds[a]
          /\ task[a].st = "idle"
          /\ task[b].st = "notified"

\* token balances of the account for a mint other than wrapped SOL differ
HasCandidate(tx) ==
    \E k \in 1..(Len(tx.preTokenBalances) + Len(tx.postTokenBalances)) :
        LET mint == IF k <= Len(tx.preTokenBalances)
                    THEN tx.preTokenBalances[k].mint
                    ELSE tx.postTokenBalances[k - Len(tx.preTokenBalances)].mint
        IN /\ mint # WSOL_MINT
           /\ FindAmount(tx.postTokenBalances, 1, mint, Me)
                 # FindAmount(tx.preTokenBalances, 1, mint, Me)
HasMarker(tx) ==
    \E i \in 1..Len(tx.logMessages) :
        tx.logMessages[i] \in {LogJup, LogRaydium, LogSwapIx}
BigNativeMove(tx) == Abs(tx.postNative - tx.preNative) > SWAP_SOL_MOVE

\* C10: with a swap candidate the classifier returns SWAP exactly when the
\* logs hold a swap marker or the native balance moved by more than 0.05;
\* otherwise it returns a TRANSFER of the candidate token.
C10_SwapIffMarkerOrBigMove ==
    (cDone /\ cTx.kind = "tx" /\ cTx.accountIndex # -1 /\ HasCandidate(cTx)) =>
        /\ cDetails.type = "SWAP" <=> (HasMarker(cTx) \/ BigNativeMove(cTx))
        /\ cDetails.type # "SWAP" =>
              /\ cDetails.type = "TRANSFER"
              /\ cDetails.tokenMint \notin {"SOL", "WSOL", WSOL_MINT}
              /\ cDetails.tokenChange =
                    FindAmount(cTx.postTokenBalances, 1, cDetails.tokenMint, Me)
                    - FindAmount(cTx.preTokenBalances, 1, cDetails.tokenMint, Me)
              /\ cDetails.tokenChange # 0

\* a candidate without marker, classified SWAP by the native-amount fallback
C10_Witness ==
    /\ cDone /\ cTx.kind = "tx" /\ cTx.accountIndex # -1
    /\ HasCandidate(cTx)
    /\ ~HasMarker(cTx)
    /\ BigNativeMove(cTx)
    /\ cDetails.type = "SWAP"

\* what the transaction says about the account, read without the scan
Classified == cDone /\ cTx.kind = "tx" /\ cTx.accountIndex # -1
OwnDelta(tx, mint) ==
    FindAmount(tx.postTokenBalances, 1, mint, Me)
    - FindAmount(tx.preTokenBalances, 1, mint, Me)
WrappedDelta(tx) == OwnDelta(tx, WSOL_MINT)
NativeDelta(tx) == tx.postNative - tx.preNative
BuyScenario ==
    MakeTx(0, -500000000, <<LogJup>>, <<>>, <<TokenOf(MintA, 1000000)>>)
SellScenario ==
    MakeTx(0, -500000000, <<LogJup>>, <<TokenOf(MintA, 1000000)>>, <<>>)

\* C11: a SWAP event has isBuy true exactly when the target token's quantity
\* delta for the account is positive; a gain of 1,000,000 units with a native
\* decrease of 0.5 and a swap marker is a SWAP with isBuy true, the same shape
\* with a token loss a SWAP with isBuy false.
C11_IsBuyIffTokenGain ==
    Classified =>
        /\ cDetails.type = "SWAP" =>
              (cDetails.isBuy <=> OwnDelta(cTx, cDetails.tokenMint) > 0)
        /\ cTx = BuyScenario => (cDetails.type = "SWAP" /\ cDetails.isBuy)
        /\ cTx = SellScenario => (cDetails.type = "SWAP" /\ ~cDetails.isBuy)

\* the buy scenario was classified
C11_Witness ==
    /\ Classified
    /\ cTx = BuyScenario
    /\ cDetails.type = "SWAP"
    /\ cDetails.isBuy
    /\ cDetails.tokenChange = 1000000

\* C12 (as amended): without a swap candidate the classifier returns WRAP
\* exactly when the native and the wrapped delta are each above 0.001 in
\* magnitude and the magnitude of their sum is below 0.01; every other
\* transaction without candidate is a TRANSFER.
C12_WrapIffLegsAndNet ==
    (Classified /\ ~HasCandidate(cTx)) =>
        /\ cDetails.type = "WRAP" <=>
              /\ Abs(NativeDelta(cTx)) > WRAP_LEG_MIN
              /\ Abs(WrappedDelta(cTx)) > WRAP_LEG_MIN
              /\ Abs(NativeDelta(cTx) + WrappedDelta(cTx)) < WRAP_NET_MAX
        /\ cDetails.type # "WRAP" => cDetails.type = "TRANSFER"

\* C12 as claimed: the sum is held to the same threshold as the two legs.
C12_WrapOneThreshold ==
    (Classified /\ ~HasCandidate(cTx)) =>
        /\ cDetails.type = "WRAP" <=>
              /\ Abs(NativeDelta(cTx)) > WRAP_LEG_MIN
              /\ Abs(WrappedDelta(cTx)) > WRAP_LEG_MIN
              /\ Abs(NativeDelta(cTx) + WrappedDelta(cTx)) < WRAP_LEG_MIN
        /\ cDetails.type # "WRAP" => cDetails.type = "TRANSFER"

\* a WRAP whose net movement lies between the two thresholds
C12_Witness ==
    /\ Classified /\ ~HasCandidate(cTx)
    /\ cDetails.type = "WRAP"
    /\ Abs(NativeDelta(cTx) + WrappedDelta(cTx)) >= WRAP_LEG_MIN
    /\ Abs(NativeDelta(cTx) + WrappedDelta(cTx)) < WRAP_NET_MAX

\* C13: a WRAP event has its direction flag true exactly when the wrapped
\* delta is positive; native +0.4 with wrapped -0.4 and no other token delta
\* is a WRAP with the flag false, with or without a swap marker.
C13_WrapDirection ==
    Classified =>
        /\ cDetails.type = "WRAP" => (cDetails.isBuy <=> WrappedDelta(cTx) > 0)
        /\ (/\ ~HasCandidate(cTx)
            /\ NativeDelta(cTx) = 400000000
            /\ WrappedDelta(cTx) = -400000000) =>
              (cDetails.type = "WRAP" /\ ~cDetails.isBuy)

\* the unwrap scenario with a swap marker in the logs
C13_Witness ==
    /\ Classified /\ ~HasCandidate(cTx)
    /\ HasMarker(cTx)
    /\ NativeDelta(cTx) = 400000000
    /\ WrappedDelta(cTx) = -400000000
    /\ cDetails.type = "WRAP"
    /\ ~cDetails.isBuy

\* the WRAP test of line 408, on the transaction
WrapShape(tx) ==
    /\ Abs(NativeDelta(tx)) > WRAP_LEG_MIN
    /\ Abs(WrappedDelta(tx)) > WRAP_LEG_MIN
    /\ Abs(NativeDelta(tx) + WrappedDelta(tx)) < WRAP_NET_MAX

\* C14: without a swap candidate and outside the WRAP shape the classifier
\* returns a TRANSFER of SOL whose delta is nativeDiff + wrappedDiff and
\* whose incoming flag is true exactly when that sum is positive.
C14_TransferDelta ==
    (Classified /\ ~HasCandidate(cTx) /\ ~WrapShape(cTx)) =>
        /\ cDetails.type = "TRANSFER"
        /\ cDetails.tokenMint = "SOL"
        /\ cDetails.tokenChange = NativeDelta(cTx) + WrappedDelta(cTx)
        /\ cDetails.solChange = NativeDelta(cTx) + WrappedDelta(cTx)
        /\ cDetails.isBuy <=> NativeDelta(cTx) + WrappedDelta(cTx) > 0

\* a transfer that includes wrapped proceeds
C14_Witness ==
    /\ Classified /\ ~HasCandidate(cTx) /\ ~WrapShape(cTx)
    /\ WrappedDelta(cTx) # 0
    /\ NativeDelta(cTx) # 0
    /\ cDetails.type = "TRANSFER"
    /\ cDetails.tokenChange = NativeDelta(cTx) + WrappedDelta(cTx)

\* the facts of an event: kind, token, deltas, direction
Facts(d) ==
    IF d.type \in {"NULL", "NOTCALLED"} THEN <<d.type>>
    ELSE <<d.type, d.tokenMint, d.tokenChange, d.solChange, d.isBuy>>

MarketLookupFailed == lookups.jup.status # "ok" /\ lookups.dex.status # "ok"
RugLookupFailed == lookups.rug.status \in {"throws", "notok"}
AfterLookups == lookups.rug.status # "none"

\* C16: a SWAP whose market-data lookup, risk lookup or both failed is still
\* produced and dispatched exactly once, and a failure of one lookup leaves
\* the event with what the other lookup returned.
C16_SwapSurvivesLookupFailure ==
    AfterLookups =>
        /\ details.type = "SWAP"
        /\ sent <= 1
        /\ tpc # "send" => (tpc = "done" /\ sent = 1)
        /\ MarketLookupFailed =>
              details.rugData = RugResult(lookups.rug)
        /\ RugLookupFailed =>
              details.tokenData = MarketData(lookups.jup, lookups.dex)

\* a SWAP dispatched after both lookups failed
C16_Witness ==
    /\ AfterLookups
    /\ MarketLookupFailed /\ RugLookupFailed
    /\ details.type = "SWAP"
    /\ tpc = "done"
    /\ sent = 1

\* C17: after a failed risk lookup the event carries no risk data and the
\* Risk line shows the placeholder, never a concrete tier.
C17_FailedRiskIsPlaceholder ==
    (AfterLookups /\ RugLookupFailed) =>
        /\ details.rugData = NoData
        /\ RiskText(details.rugData) = PendingRisk

\* what each source supplies, read from its reply
JupSuppliesSymbol ==
    rJup.status = "ok" /\ rJup.info /\ rJup.extra /\ rJup.symbol # ""
JupSuppliesPrice == rJup.status = "ok" /\ rJup.info /\ rJup.price # ""
DexHasPair == rDex.status = "ok" /\ Len(rDex.pairs) > 0
DexBest ==
    CHOOSE q \in { rDex.pairs[i] : i \in 1..Len(rDex.pairs) } :
        \A i \in 1..Len(rDex.pairs) : q.usd >= rDex.pairs[i].usd
DexSuppliesSymbol == DexHasPair /\ DexBest.symbol # ""
DexSuppliesPrice == DexHasPair /\ DexBest.priceUsd # ""

\* C18: the resolver returns found exactly when at least one source yields
\* a symbol or a price, in particular when Jupiter yields a price without
\* symbol information and DexScreener yields nothing.
C18_FoundIffSymbolOrPrice ==
    rResult # NotReturned =>
        (rResult # NoData <=>
            \/ JupSuppliesSymbol \/ JupSuppliesPrice
            \/ DexSuppliesSymbol \/ DexSuppliesPrice)

\* C20: the resolver returns only after both requests have settled; what it
\* returns does not depend on the order in which they settled or on one of
\* them failing: symbol and price are Jupiter's when Jupiter supplies them
\* and DexScreener's only where Jupiter supplied none, valuation and
\* liquidity are DexScreener's.
C20_MergeAfterBothSettle ==
    rResult # NotReturned =>
        /\ Len(rSettled) = 2
        /\ rResult # NoData =>
              /\ rResult.symbol =
                    IF JupSuppliesSymbol THEN rJup.symbol
                    ELSE IF DexHasPair THEN DexBest.symbol ELSE "UNKNOWN"
              /\ rResult.priceUsd =
                    IF JupSuppliesPrice THEN rJup.price
                    ELSE IF DexHasPair THEN DexBest.priceUsd ELSE "0"
              /\ rResult.fdv = IF DexHasPair THEN DexBest.fdv ELSE 0
              /\ rResult.liquidity = IF DexHasPair THEN DexBest.usd ELSE 0

\* both sources supplied symbol and price and DexScreener settled first
C20_Witness ==
    /\ rSettled = <<"dex", "jup">>
    /\ JupSuppliesSymbol /\ JupSuppliesPrice
    /\ DexSuppliesSymbol /\ DexSuppliesPrice
    /\ rResult # NotReturned
    /\ rResult.symbol = rJup.symbol
    /\ rResult.priceUsd = rJup.price
    /\ rResult.fdv = 2000

\* a call that was answered from the cache, and one that went to the network
FromCache(call) == call.st = "returned" /\ call.via = "cache"
FromNetwork(call) == call.st \in {"flight", "returned"} /\ call.via = "net"
Called(call) == call.st # "idle"

\* C19: in both caches a lookup is answered from the cache, without a
\* network call, exactly when an entry exists whose age is strictly below
\* the TTL of 60 s; an entry aged TTL or more is never returned.
C19_CacheHitIffYoungerThanTTL ==
    \A call \in {tokCall, rugCall} :
        Called(call) =>
            /\ FromCache(call) <=> (call.age >= 0 /\ call.age < CACHE_TTL)
            /\ FromNetwork(call) <=> (call.age = -1 \/ call.age >= CACHE_TTL)
            /\ FromCache(call) \/ FromNetwork(call)

\* one lookup served in the last millisecond of the TTL, the other sent to
\* the network for an entry aged exactly the TTL
C19_Witness ==
    /\ FromCache(tokCall) /\ tokCall.age = CACHE_TTL - 1
    /\ FromNetwork(rugCall) /\ rugCall.age = CACHE_TTL

\* the decimals the brackets call for
Formatted == fmt.out # NotFormatted /\ fmt.in.kind = "num"
BracketDecimals(p) ==
    IF ~Below(p, 0) THEN 2
    ELSE IF ~Below(p, -2) THEN 4
    ELSE IF ~Below(p, -5) THEN 6
    ELSE IF ~Below(p, -8) THEN 8
    ELSE 10
PriceOf(m, e) == [kind |-> "num", m |-> m, e |-> e]

\* C21: every positive price is rendered with '$', in fixed-point notation,
\* with the decimals of its magnitude bracket (2 from 1, 4 from 0.01, 6 from
\* 0.00001, 8 from 0.00000001, 10 below), each lower boundary belonging to
\* the bracket above it; 0.0000000031 has 10 decimals, 1234.5 is $1234.50,
\* 0.0005 has 6 decimals.
C21_DecimalsByBracket ==
    Formatted =>
        /\ fmt.out.prefix = "$"
        /\ fmt.out.notation = "fixed"
        /\ fmt.out.decimals = BracketDecimals(fmt.in)
        /\ fmt.in = PriceOf(31, -10) =>
              (fmt.out.digits = 31 /\ fmt.out.zeros = 0)
        /\ fmt.in = PriceOf(12345, -1) =>
              (fmt.out.digits = 12345 /\ fmt.out.zeros = 1)
        /\ fmt.in = PriceOf(5, -4) =>
              (fmt.out.digits = 5 /\ fmt.out.zeros = 2)

\* a polling cycle has run to its end
CycleCompleted == cycle >= 1 /\ pc = "top"

\* C30: once the first polling cycle has completed, the balance cache holds
\* an entry for every account of the current list, whatever became of its
\* baseline query and whatever its balance.
C30_EntryForEveryAccount ==
    CycleCompleted =>
        \A i \in 1..Len(GLOBAL_WALLETS) : balanceCache[GLOBAL_WALLETS[i]] # NoEntry

\* minima the threshold of line 33 is set to: 0 as committed, 0.1 SOL as its
\* comment advises for production
Minima == {MIN_SOL_THRESHOLD, 100000000}
Dispatched == sent > 0 \/ tpc = "send"

\* C25: no message is handed over for a TRANSFER below the configured
\* minimum, for a TRANSFER of a token, or for a WRAP; an event that names a
\* token and is handed over is a SWAP.
C25_OnlySwapsAndNativeTransfers ==
    /\ Dispatched =>
          /\ details.type \in {"SWAP", "TRANSFER"}
          /\ details.type = "TRANSFER" =>
                /\ details.tokenMint = "SOL"
                /\ Abs(details.solChange) >= MIN_SOL_THRESHOLD
          /\ details.tokenMint # "SOL" => details.type = "SWAP"
    /\ \A minSol \in Minima :
          (details.type = "TRANSFER" /\ Abs(details.solChange) < minSol)
              => ~Notifies(details, minSol)

\* a token TRANSFER and a WRAP were classified and the task ended without a
\* message; either is reached
C25_Witness ==
    /\ tpc = "done"
    /\ sent = 0
    /\ \/ details.type = "WRAP"
       \/ details.type = "TRANSFER" /\ details.tokenMint = MintA

\* C26: a send that fails ends the task like one that succeeds: the event,
\* the balance cache and the loop are left as they were, and the event is
\* handed to sendTgMessage once and never again.
C26_SendFailureIsFinal ==
    /\ [](sent <= 1)
    /\ [](lookups.send = "failed" => (tpc = "done" /\ sent = 1))
    /\ [][tpc = "send" =>
            /\ tpc' = "done"
            /\ details' = details
            /\ balanceCache' = balanceCache
            /\ pc' = pc]_vars

\* the send of a SWAP failed and the task is over
C26_Witness ==
    /\ lookups.send = "failed"
    /\ details.type = "SWAP"
    /\ tpc = "done"
    /\ sent = 1

\* C22: the delay between cycles is never below 1000 ms and never above
\* 10000 ms, whatever the batch queries answer.
C22_DelayWithinBounds ==
    /\ ctl.dynamicInterval >= INTERVAL_FLOOR
    /\ ctl.dynamicInterval <= INTERVAL_CEILING

\* the delay stands at the ceiling while the next batch query is awaited
C22_Witness ==
    /\ ctl.dynamicInterval = INTERVAL_CEILING
    /\ ctl.pc = "query"

CycleOver == ctl.pc = "top"

\* C23: a cycle in which some upstream call answered 429 ends with a delay
\* larger than the one it began with, unless that one was the ceiling.
C23_SignalRaisesDelay ==
    (CycleOver /\ ctl.signal) =>
        \/ ctl.dynamicInterval > ctl.startInterval
        \/ ctl.startInterval = INTERVAL_CEILING

TaskStarted == ctl'.tasks["sig"] > ctl.tasks["sig"]

\* C24: once a call has answered 429 while a batch is processed, no task is
\* started for the ChangeRecords of that batch still waiting.
C24_NoStartAfterSignal ==
    [][(ctl.pc = "tasks" /\ ctl.batchSignal) => ~TaskStarted]_vars

Arrived(p) == ctl'.tasks[p] > ctl.tasks[p]
Left(p) == ctl'.tasks[p] < ctl.tasks[p]
IsPrefix(a, b) == Len(a) <= Len(b) /\ a = SubSeq(b, 1, Len(a))

\* C27: a task takes up its transaction only after its signature lookup, its
\* metadata lookups only after the transaction, and the send only after the
\* classification with its lookups; the batches of a cycle are queried in
\* the order of the list the cycle read, and no batch is queried while a
\* task of an earlier batch is running or waiting.
C27_FixedOrder ==
    /\ [][/\ Arrived("fetch") => Left("sig")
          /\ Arrived("meta") => Left("fetch")
          /\ Arrived("send") => (Left("fetch") \/ Left("meta"))]_vars
    /\ [](/\ IsPrefix(ctl.visited, ctl.snapshot)
          /\ ctl.pc = "query" => Len(ctl.visited) = (ctl.chunkIdx - 1) * CHUNK_SIZE)
    /\ [](ctl.pc \in {"query", "top"} =>
             (NumRunning(ctl.tasks) = 0 /\ ctl.pending = 0))

\* the second batch of a cycle was queried after the first, and a task of
\* its last sub-batch has come to its send
C27_Witness ==
    /\ ctl.pc = "tasks"
    /\ ctl.chunkIdx = 2
    /\ Len(ctl.visited) = 2 * CHUNK_SIZE
    /\ IsPrefix(ctl.visited, ctl.snapshot)
    /\ ctl.pending = 0
    /\ ctl.tasks["send"] > 0

CycleUnderWay == ctl.pc \in {"query", "tasks"}

\* C29: a reload changes neither the list a cycle works on nor the accounts
\* it has queried; the cycle queries exactly the list it read at its start,
\* in order; the reloaded list is the one the next cycle reads.
C29_ReloadTakesEffectNextCycle ==
    /\ [](CycleUnderWay =>
             /\ ctl.currentWallets = ctl.snapshot
             /\ IsPrefix(ctl.visited, ctl.snapshot))
    /\ [][(CycleUnderWay /\ ctl'.pc = "top") => ctl'.visited = ctl.snapshot]_vars
    /\ [][ctl'.GLOBAL_WALLETS # ctl.GLOBAL_WALLETS =>
             /\ ctl'.currentWallets = ctl.currentWallets
             /\ ctl'.visited = ctl.visited
             /\ ctl'.chunkIdx = ctl.chunkIdx]_vars
    /\ [][(ctl.pc = "top" /\ ctl'.pc = "query") =>
             ctl'.currentWallets = ctl.GLOBAL_WALLETS]_vars

\* the list was replaced after the first batch of a cycle was queried, and
\* the cycle is at its second batch of the list it began with
C29_Witness ==
    /\ ctl.pc = "query"
    /\ ctl.chunkIdx = 2
    /\ ctl.GLOBAL_WALLETS # ctl.snapshot
    /\ ctl.visited = SubSeq(ctl.snapshot, 1, CHUNK_SIZE)

BatchUnderWay(k) == ctl.pc \in {"query", "tasks"} /\ ctl.chunkIdx = k
BatchQueried(k) == ctl.pc = "query" /\ ctl.chunkIdx = k

\* C28: whatever fails, a batch under way is followed by the query of the
\* next batch of the cycle, the cycle comes to its end and another cycle
\* begins, as long as every awaited call settles.
C28_LoopNeverStops ==
    /\ \A k \in 1..(Len(chunkArray(ListB, CHUNK_SIZE)) - 1) :
          BatchUnderWay(k) ~> BatchQueried(k + 1)
    /\ []<>CycleOver
    /\ []<>BatchQueried(1)

\* a call of the first batch answered 429 and the second batch is queried
C28_Witness ==
    /\ BatchQueried(2)
    /\ ctl.signal

\* the tier of the Risk line that carries the same name as a riskLevel
TierOf(level) ==
    CASE level = "good" -> "safe"
      [] level = "warn" -> "warn"
      [] level = "danger" -> "danger"
      [] OTHER -> "none"

\* C38: for a scored token that is not new, the tier on the Risk line of the
\* message is the tier fetchRugCheckData stored as riskLevel.
C38_ShownTierIsStoredTier ==
    (Dispatched /\ details.type = "SWAP" /\ lookups.rug.status = "ok") =>
        RiskText(details.rugData).tier = TierOf(details.rugData.riskLevel)

RiskFailed(data) == data.riskLevel \in {"error", "unknown"}
TokenSettled == tokCall.st = "flight" /\ tokCall'.st = "returned"
RugSettled == rugCall.st = "flight" /\ rugCall'.st = "returned"

\* C39: an entry of either cache is the result of a lookup that succeeded;
\* a lookup that ends without data or with the error or new-token value
\* leaves both caches as they were, and no call served from a cache returns
\* such a value.
C39_CachesHoldOnlySuccesses ==
    /\ [](\A m \in Mints :
             /\ tokenCache[m] # NoCached => tokenCache[m].data # NoData
             /\ rugCache[m] # NoCached => ~RiskFailed(rugCache[m].data))
    /\ []((tokCall.st = "returned" /\ tokCall.via = "cache")
             => tokCall.data # NoData)
    /\ []((rugCall.st = "returned" /\ rugCall.via = "cache")
             => ~RiskFailed(rugCall.data))
    /\ [][(TokenSettled /\ tokCall'.data = NoData)
             => tokenCache' = tokenCache]_vars
    /\ [][(RugSettled /\ RiskFailed(rugCall'.data))
             => rugCache' = rugCache]_vars

\* a risk lookup went to the network past the TTL of an entry and failed;
\* the entry is still in the cache
C39_Witness ==
    /\ rugCall.st = "returned"
    /\ rugCall.via = "net"
    /\ RiskFailed(rugCall.data)
    /\ rugCache[rugCall.mint] # NoCached

\* C33: when the retrier is about to look up again, the time it waited since
\* the latest lookup is not shorter than the time it waited between the two
\* lookups before.
C33_DelaysNeverShrink ==
    (rev = "V28" /\ tpc = "lookup" /\ lookups.prevDelay > 0) =>
        lookups.delay >= lookups.prevDelay

\* the tokens other than wrapped SOL whose balance of the account changed
Candidates(tx) == { m \in {MintA, MintB} : OwnDelta(tx, m) # 0 }
Position(tx, m) ==
    LET mints == allMints(tx.preTokenBalances, tx.postTokenBalances)
    IN CHOOSE i \in 1..Len(mints) : mints[i] = m
RECURSIVE OwnedBy(_, _, _)
OwnedBy(bals, i, owner) ==
    IF i > Len(bals) THEN <<>>
    ELSE (IF bals[i].owner = owner THEN <<bals[i]>> ELSE <<>>)
         \o OwnedBy(bals, i + 1, owner)
\* the transaction without the token balances of other owners
OwnOnly(tx) ==
    [tx EXCEPT !.preTokenBalances = OwnedBy(@, 1, Me),
               !.postTokenBalances = OwnedBy(@, 1, Me)]
OwnOnlyResult == ParseTransaction("sig", OwnOnly(cTx), Me, NoData, NoData)
TiedCandidates(tx) ==
    \E m, n \in Candidates(tx) :
        m # n /\ Abs(OwnDelta(tx, m)) = Abs(OwnDelta(tx, n))

\* the target is the candidate of largest absolute delta that comes first
\* in iteration order, with that delta; wrapped SOL is never the target and
\* its delta goes to the SOL side; without a candidate there is no target
TargetAsStated ==
    /\ (Candidates(cTx) = {}) <=> (cDetails.tokenMint \in {"SOL", "WSOL"})
    /\ cDetails.tokenMint # WSOL_MINT
    /\ cDetails.type = "SWAP" =>
          cDetails.solChange = NativeDelta(cTx) + WrappedDelta(cTx)
    /\ Candidates(cTx) # {} =>
          /\ cDetails.tokenMint \in Candidates(cTx)
          /\ cDetails.tokenChange = OwnDelta(cTx, cDetails.tokenMint)
          /\ \A m \in Candidates(cTx) :
                /\ Abs(OwnDelta(cTx, m)) <= Abs(cDetails.tokenChange)
                /\ Abs(OwnDelta(cTx, m)) = Abs(cDetails.tokenChange) =>
                      Position(cTx, cDetails.tokenMint) <= Position(cTx, m)

\* C32 as stated: the target is chosen as above, and the event is the one
\* the same transaction gives without the balances of other owners.
C32_TargetIgnoresOtherOwners ==
    Classified =>
        /\ TargetAsStated
        /\ Facts(cDetails) = Facts(OwnOnlyResult)

\* C32: the target is chosen as above; the balances of other owners change
\* nothing but the target token itself, and that only between candidates
\* of equal absolute delta.
C32_TargetByLargestOwnDelta ==
    Classified =>
        /\ TargetAsStated
        /\ OwnOnlyResult.type = cDetails.type
        /\ OwnOnlyResult.solChange = cDetails.solChange
        /\ Abs(OwnOnlyResult.tokenChange) = Abs(cDetails.tokenChange)
        /\ ~TiedCandidates(cTx) => Facts(cDetails) = Facts(OwnOnlyResult)

\* two tokens of the account moved by the same amount, and the first of
\* them in iteration order was chosen over a larger wrapped delta
C32_Witness ==
    /\ Classified
    /\ TiedCandidates(cTx)
    /\ WrappedDelta(cTx) # 0
    /\ \E m \in Candidates(cTx) :
          Position(cTx, cDetails.tokenMint) < Position(cTx, m)

\* C37: the query that produces a ChangeRecord for an account found an entry
\* for it in the balance cache.
C37_RecordNeedsBaseline ==
    [][\A a \in Accounts :
          (updates' # updates /\ InUpdates(updates', a))
              => balanceCache[a] # NoEntry]_vars

Finished(t) == t.st \in {"notified", "noevent", "suppressed"}
\* the sub-batches that hold a record of account a
SubBatchesOf(batches, a) ==
    { b \in 1..Len(batches) :
        \E i \in 1..Len(batches[b]) : batches[b][i].wallet = a }

\* every record is in one sub-batch, and the tasks that exist are those of the
\* records of the sub-batch the loop is at
RecordsHaveTasks ==
    LET batches == updateBatches(updates)
    IN \A a \in Accounts :
         LET own == SubBatchesOf(batches, a)
         IN /\ InUpdates(updates, a) => Cardinality(own) = 1
            /\ task[a].st # "idle" => (pc = "tasks" /\ own = {batchIdx})
            /\ (pc = "tasks" /\ batchIdx \in own) => task[a].st # "idle"

\* what a step of the loop does to the records and their tasks
ConsumedStep ==
    /\ \A a \in Accounts :
        /\ (task'[a].st = "notified" /\ task[a].st # "notified") =>
               (task[a].st = "running" /\ InUpdates(updates, a))
        /\ Finished(task[a]) => task'[a] \in {task[a], Idle}
    /\ (pc = "tasks" /\ pc' # "tasks") =>
           /\ batchIdx = Len(updateBatches(updates))
           /\ \A a \in Accounts : task[a].st # "running"
    /\ (pc = "tasks" /\ pc' = "tasks") => updates' = updates

\* C36: every ChangeRecord of a batch is consumed before the next batch of
\* accounts is queried: it is in exactly one sub-batch, its task is started
\* when that sub-batch is reached, every sub-batch is reached and its tasks are
\* over before the loop leaves the batch, and a task notifies at most once, so
\* an account is never notified without a record of its own in this batch.
C36_RecordsConsumedInCycle ==
    []RecordsHaveTasks /\ [][ConsumedStep]_vars
\* the second sub-batch of six records is under way and its task has notified
C36_Witness ==
    /\ pc = "tasks"
    /\ Len(updates) > MAX_CONCURRENT_TASKS
    /\ batchIdx = Len(updateBatches(updates))
    /\ \E a \in Accounts : task[a].st = "notified"


\* ---- the configured list ----------------------------------------------------
\* C31: after main has loaded wallets.json, whatever the file is (absent or
\* malformed included), the account list is non-empty.
C31_StartsWithWallets == ctl.pc # "main" => Len(ctl.GLOBAL_WALLETS) > 0

\* what loading the file as a list of entries yields, and whether it yields
\* anything: a file of valid and invalid addresses yields the valid ones
KeysOf(file) == AddrsOf(SelectSeq(file.raw, IsKey))
OnlyAddressFaults(file) ==
    /\ file.state = "parsed"
    /\ \A i \in 1..Len(file.raw) : file.raw[i].kind \in {"key", "bad"}
Unusable(file) ==
    \/ file.state \in {"missing", "unparsable"}
    \/ file.state = "parsed" /\ \A i \in 1..Len(file.raw) : file.raw[i].kind # "key"

\* what a reload of the file would leave in GLOBAL_WALLETS
AfterReload(file) ==
    Reloaded(ctl.GLOBAL_WALLETS, loadWalletConfigs(file, ctl.GLOBAL_WALLETS))
ReloadRule ==
    \A file \in Files :
        /\ Unusable(file) => AfterReload(file) = ctl.GLOBAL_WALLETS
        /\ (OnlyAddressFaults(file) /\ ~Unusable(file)) =>
               AfterReload(file) = KeysOf(file)
ReloadStep ==
    ctl.pc # "main" =>
        /\ Len(ctl.GLOBAL_WALLETS) > 0 => Len(ctl'.GLOBAL_WALLETS) > 0
        /\ \/ ctl'.GLOBAL_WALLETS = ctl.GLOBAL_WALLETS
           \/ \E file \in Files :
                /\ ~Unusable(file)
                /\ ctl'.GLOBAL_WALLETS = loadWalletConfigs(file, ctl.GLOBAL_WALLETS)

QuerySucceeds == \E n \in {0, 1} : CtlQueryOK(n)
Quiet == ~ctl.signal /\ Len(ctl.GLOBAL_WALLETS) > 0
AtFloor == ctl.dynamicInterval = INTERVAL_FLOOR
\* a successful batch query takes one step off a delay above the floor, the
\* delay shrinks in no other way, and it grows only when the batch query
\* answers 429
DelayStep ==
    /\ QuerySucceeds =>
           ctl'.dynamicInterval =
               IF ctl.dynamicInterval > INTERVAL_FLOOR
               THEN ctl.dynamicInterval - INTERVAL_RELAX
               ELSE ctl.dynamicInterval
    /\ ctl'.dynamicInterval < ctl.dynamicInterval => QuerySucceeds
    /\ ctl'.dynamicInterval > ctl.dynamicInterval => CtlQueryFail(TRUE)

\* C34: if from some point on no call reports a rate limit and the list is
\* non-empty, the delay eventually is at the floor for good; above the floor
\* each successful batch query takes one step off it, and it never grows
\* without a rate-limit signal.
C34_DelayReturnsToFloor ==
    /\ <>[]Quiet => <>[]AtFloor
    /\ [][DelayStep]_vars

\* C34 as amended: the same, provided batch queries succeed again and again.
C34_DelayReturnsToFloorOnSuccess ==
    /\ (<>[]Quiet /\ []<><<QuerySucceeds>>_vars) => <>[]AtFloor
    /\ [][DelayStep]_vars
\* a cycle that began above the floor has come down to it without a signal
C34_Witness ==
    /\ ctl.startInterval > INTERVAL_FLOOR
    /\ AtFloor
    /\ Quiet

====
